---- MODULE Spec2Model ----
(***************************************************************************)
(* A model of the pre.dev Architect API client for Node.js/TypeScript      *)
(* (predev-api-node/src/client.ts): request building for the generation    *)
(* and read-only operations, the single fetch per call, and the            *)
(* classification of the response by PredevAPI.handleResponse.             *)
(*                                                                         *)
(* Text is modelled as a sequence of atoms.  An atom is a TLA+ string that *)
(* stands for one character that matters to an encoder (a quote, a         *)
(* backslash, a bracket, ...) or for a run of characters no encoder looks  *)
(* into ("Build a todo app").  Concatenation of text is \o.                *)
(* An optional argument is a sequence of length 0 (undefined) or 1.        *)
(***************************************************************************)
EXTENDS Integers, Sequences, FiniteSets, TLC

----------------------------------------------------------------------------
(* Bounds of the model.                                                    *)

\* the longest documentation-URL list a generation call is given
MaxURLs == 2

----------------------------------------------------------------------------
(* Text                                                                    *)

QUOTE == "\""
BSLASH == "\\"
NEWLINE == "\n"

None == <<>>
Some(x) == <<x>>
IsSome(o) == Len(o) = 1
Get(o) == o[1]

\* `hay` contains `needle` as a contiguous run of atoms
Contains(hay, needle) ==
    \E i \in 0..(Len(hay) - Len(needle)) :
        \A j \in 1..Len(needle) : hay[i + j] = needle[j]

RECURSIVE JoinWith(_, _)
\* Array.prototype.join / the "&" join of URLSearchParams
JoinWith(ss, sep) ==
    IF ss = <<>> THEN <<>>
    ELSE IF Len(ss) = 1 THEN ss[1]
    ELSE ss[1] \o sep \o JoinWith(Tail(ss), sep)

----------------------------------------------------------------------------
(* JSON values: [t |-> tag, v |-> payload], the payload always a sequence. *)
(*   "str"  : v is the text                                                *)
(*   "arr"  : v is the sequence of element values                          *)
(*   "obj"  : v is the sequence of <<key text, value>> members, in order   *)
(*   "bool" : v is <<"true">> or <<"false">>                               *)
(*   "null" : v is <<>>                                                    *)

JStr(s) == [t |-> "str", v |-> s]
JArr(a) == [t |-> "arr", v |-> a]
JObj(m) == [t |-> "obj", v |-> m]
JTrue == [t |-> "bool", v |-> <<"true">>]
JFalse == [t |-> "bool", v |-> <<"false">>]
JNull == [t |-> "null", v |-> <<>>]

\* the array of strings a docURLs argument is
JStrArr(urls) == JArr([i \in 1..Len(urls) |-> JStr(urls[i])])

RECURSIVE EscapeText(_)
\* JSON.stringify's quoting of the characters of a string
EscapeText(s) ==
    IF s = <<>> THEN <<>>
    ELSE LET c == Head(s)
             e == IF c = QUOTE THEN <<BSLASH, QUOTE>>
                  ELSE IF c = BSLASH THEN <<BSLASH, BSLASH>>
                  ELSE IF c = NEWLINE THEN <<BSLASH, "n">>
                  ELSE <<c>>
         IN e \o EscapeText(Tail(s))

StringifyText(s) == <<QUOTE>> \o EscapeText(s) \o <<QUOTE>>

RECURSIVE Stringify(_)
RECURSIVE StringifyElems(_)
RECURSIVE StringifyMembers(_)
\* JSON.stringify(value), without indentation
Stringify(j) ==
    CASE j.t = "str" -> StringifyText(j.v)
      [] j.t = "arr" -> <<"[">> \o StringifyElems(j.v) \o <<"]">>
      [] j.t = "obj" -> <<"{">> \o StringifyMembers(j.v) \o <<"}">>
      [] j.t = "bool" -> j.v
      [] OTHER -> <<"null">>

StringifyElems(a) ==
    IF a = <<>> THEN <<>>
    ELSE IF Len(a) = 1 THEN Stringify(a[1])
    ELSE Stringify(a[1]) \o <<",">> \o StringifyElems(Tail(a))

StringifyMembers(m) ==
    IF m = <<>> THEN <<>>
    ELSE LET one == StringifyText(m[1][1]) \o <<":">> \o Stringify(m[1][2])
         IN IF Len(m) = 1 THEN one
            ELSE one \o <<",">> \o StringifyMembers(Tail(m))

----------------------------------------------------------------------------
(* JSON.parse / Response.json(): a parse step yields                        *)
(* [ok, val, rest]; ok = FALSE is the SyntaxError.                          *)

ParseFail == [ok |-> FALSE, val |-> JNull, rest |-> <<>>]
ParseOk(val, rest) == [ok |-> TRUE, val |-> val, rest |-> rest]

RECURSIVE ParseChars(_, _)
\* the characters of a string up to its closing quote; `acc` is what was read
ParseChars(toks, acc) ==
    IF toks = <<>> THEN ParseFail
    ELSE LET c == Head(toks) IN
         IF c = QUOTE THEN ParseOk(JStr(acc), Tail(toks))
         ELSE IF c = NEWLINE THEN ParseFail
         ELSE IF c = BSLASH THEN
              IF Len(toks) < 2 THEN ParseFail
              ELSE LET d == toks[2] IN
                   IF d = QUOTE \/ d = BSLASH
                   THEN ParseChars(SubSeq(toks, 3, Len(toks)), Append(acc, d))
                   ELSE IF d = "n"
                   THEN ParseChars(SubSeq(toks, 3, Len(toks)), Append(acc, NEWLINE))
                   ELSE ParseFail
         ELSE ParseChars(Tail(toks), Append(acc, c))

\* property assignment during parsing: a repeated key keeps its place and
\* takes the later value
PutMember(m, k, val) ==
    IF \E i \in 1..Len(m) : m[i][1] = k
    THEN [i \in 1..Len(m) |-> IF m[i][1] = k THEN <<k, val>> ELSE m[i]]
    ELSE Append(m, <<k, val>>)

RECURSIVE ParseValue(_)
RECURSIVE ParseElems(_, _)
RECURSIVE ParseMembers(_, _)

ParseValue(toks) ==
    IF toks = <<>> THEN ParseFail
    ELSE LET c == Head(toks)
             r == Tail(toks)
         IN CASE c = QUOTE -> ParseChars(r, <<>>)
              [] c = "true" -> ParseOk(JTrue, r)
              [] c = "false" -> ParseOk(JFalse, r)
              [] c = "null" -> ParseOk(JNull, r)
              [] c = "[" ->
                   IF r # <<>> /\ Head(r) = "]"
                   THEN ParseOk(JArr(<<>>), Tail(r))
                   ELSE ParseElems(r, <<>>)
              [] c = "{" ->
                   IF r # <<>> /\ Head(r) = "}"
                   THEN ParseOk(JObj(<<>>), Tail(r))
                   ELSE ParseMembers(r, <<>>)
              [] OTHER -> ParseFail

\* the elements of an array after "[" or ","
ParseElems(toks, acc) ==
    LET e == ParseValue(toks) IN
    IF ~e.ok \/ e.rest = <<>> THEN ParseFail
    ELSE IF Head(e.rest) = "]" THEN ParseOk(JArr(Append(acc, e.val)), Tail(e.rest))
    ELSE IF Head(e.rest) = "," THEN ParseElems(Tail(e.rest), Append(acc, e.val))
    ELSE ParseFail

\* the members of an object after "{" or ","
ParseMembers(toks, acc) ==
    IF toks = <<>> \/ Head(toks) # QUOTE THEN ParseFail
    ELSE LET k == ParseChars(Tail(toks), <<>>) IN
         IF ~k.ok \/ k.rest = <<>> \/ Head(k.rest) # ":" THEN ParseFail
         ELSE LET e == ParseValue(Tail(k.rest)) IN
              IF ~e.ok \/ e.rest = <<>> THEN ParseFail
              ELSE LET m == PutMember(acc, k.val.v, e.val) IN
                   IF Head(e.rest) = "}" THEN ParseOk(JObj(m), Tail(e.rest))
                   ELSE IF Head(e.rest) = "," THEN ParseMembers(Tail(e.rest), m)
                   ELSE ParseFail

\* JSON.parse of a whole text: the value, or ok = FALSE for a SyntaxError
JSONParse(text) ==
    LET p == ParseValue(text) IN
    IF p.ok /\ p.rest = <<>> THEN p ELSE ParseFail

HasMember(j, k) == j.t = "obj" /\ \E i \in 1..Len(j.v) : j.v[i][1] = k
Member(j, k) == (CHOOSE i \in 1..Len(j.v) : j.v[i][1] = k)
MemberValue(j, k) == j.v[Member(j, k)][2]

----------------------------------------------------------------------------
(* Exceptions (exceptions.ts): the class of an error and its ancestors.    *)

\* a variant in which the constructors do not set the prototype: an object
\* built by a subclass of Error is then an instance of Error alone
InstanceOfWithoutPrototype(cls, anc) ==
    \/ anc = "Error"
    \/ cls = anc /\ cls \notin {"PredevAPIError", "AuthenticationError", "RateLimitError"}

\* `cls` instanceof `anc`
InstanceOf(cls, anc) ==
    \/ anc = "Error"
    \/ cls = anc
    \/ anc = "PredevAPIError" /\ cls \in {"AuthenticationError", "RateLimitError"}

\* the name property of an error of class `cls`: each constructor of
\* exceptions.ts sets this.name to the name of its class after super()
ErrorName(cls) == cls

NoValue == [t |-> "none", v |-> <<>>]
Resolved(val) ==
    [kind |-> "resolved", class |-> "", name |-> "", message |-> <<>>, value |-> val]
Rejected(cls, msg) ==
    [kind |-> "rejected", class |-> cls, name |-> ErrorName(cls), message |-> msg,
     value |-> NoValue]
Pending ==
    [kind |-> "pending", class |-> "", name |-> "", message |-> <<>>, value |-> NoValue]

----------------------------------------------------------------------------
(* The client object.                                                      *)

VARIABLES
    apiKey,     \* this.apiKey
    baseUrl,    \* this.baseUrl
    headers,    \* this.headers: header name -> text
    pc,         \* "idle", "awaiting" (a fetch is in flight) or "settled"
    call,       \* the operation in progress and its arguments
    fetched,    \* the requests the operation in progress has handed to fetch
    outcome,    \* how the fetch ended: with a response, or with an error thrown
    result,     \* the settlement of the promise the operation returned
    log,        \* what an observer has on record of the calls that returned
    side,       \* a second call, made while the first is in progress
    poll,       \* a script that polls the status of a job with this client
    job,        \* the status the service has for the job that script polls
    deploy      \* a run of scripts/deploy.sh and the deployments it started

vars == <<apiKey, baseUrl, headers, pc, call, fetched, outcome, result, log, side,
          poll, job, deploy>>
config == <<apiKey, baseUrl, headers>>

DefaultBaseUrl == <<"https://api.pre.dev">>

\* config.baseUrl?.replace(/\/$/, "") || "https://api.pre.dev"
NormalizeBaseUrl(b) ==
    LET stripped == IF ~IsSome(b) THEN <<>>
                    ELSE IF Get(b) # <<>> /\ Get(b)[Len(Get(b))] = "/"
                         THEN SubSeq(Get(b), 1, Len(Get(b)) - 1)
                         ELSE Get(b)
    IN IF stripped = <<>> THEN DefaultBaseUrl ELSE stripped

\* the headers object the constructor sets up
DefaultHeaders(key) ==
    ("Authorization" :> (<<"Bearer ">> \o key)) @@
    ("Content-Type" :> <<"application/json">>)

----------------------------------------------------------------------------
(* Files.  A File argument is a Blob (isBlob, with a content type that may *)
(* be empty and, for a File object, a name) or a {data, name} object.      *)

BlobFile(type, name) == [isBlob |-> TRUE, type |-> type, name |-> name, data |-> <<"bytes">>]
DataFile(name) == [isBlob |-> FALSE, type |-> <<>>, name |-> name, data |-> <<"bytes">>]

\* normalizeFile: a Blob is passed on, {data, name} is wrapped in a Blob
NormalizeFile(file) ==
    IF file.isBlob THEN [type |-> file.type, data |-> file.data]
    ELSE [type |-> <<"application/octet-stream">>, data |-> file.data]

\* getFileName
GetFileName(file) ==
    IF file.isBlob /\ file.type # <<>>
    THEN <<"upload">> \o (IF file.type = <<"application/pdf">> THEN <<".pdf">> ELSE <<".txt">>)
    ELSE IF IsSome(file.name) /\ Get(file.name) # <<>> THEN Get(file.name)
    ELSE <<"upload.txt">>

----------------------------------------------------------------------------
(* Requests.                                                               *)

NoBody == [kind |-> "none", text |-> <<>>, parts |-> <<>>]
JsonBody(text) == [kind |-> "json", text |-> text, parts |-> <<>>]
FormBody(parts) == [kind |-> "form", text |-> <<>>, parts |-> parts]

TextPart(name, value) ==
    [name |-> name, kind |-> "text", value |-> value, filename |-> <<>>, type |-> <<>>]
FilePart(name, blob, filename) ==
    [name |-> name, kind |-> "file", value |-> blob.data, filename |-> filename,
     type |-> blob.type]

Request(method, url, hdrs, body) ==
    [method |-> method, url |-> url, headers |-> hdrs, body |-> body]

\* a variant that always sets both optional members, null when not supplied
OptionalMembersOrNull(currentContext, docURLs) ==
    << << <<"currentContext">>,
          IF IsSome(currentContext) THEN JStr(Get(currentContext)) ELSE JNull >>,
       << <<"docURLs">>,
          IF IsSome(docURLs) THEN JStrArr(Get(docURLs)) ELSE JNull >> >>

\* a variant that encodes the URL list to text first, as the form branch does
OptionalMembersDocsAsText(currentContext, docURLs) ==
    (IF IsSome(currentContext)
     THEN << << <<"currentContext">>, JStr(Get(currentContext)) >> >> ELSE <<>>)
    \o
    (IF IsSome(docURLs)
     THEN << << <<"docURLs">>, JStr(Stringify(JStrArr(Get(docURLs)))) >> >> ELSE <<>>)

\* the members a generation payload gets for its optional arguments
OptionalMembers(currentContext, docURLs) ==
    (IF IsSome(currentContext)
     THEN << << <<"currentContext">>, JStr(Get(currentContext)) >> >> ELSE <<>>)
    \o
    (IF IsSome(docURLs)
     THEN << << <<"docURLs">>, JStrArr(Get(docURLs)) >> >> ELSE <<>>)

\* a variant that appends one docURLs part for every URL
OptionalPartsPerURL(currentContext, docURLs) ==
    (IF IsSome(currentContext)
     THEN <<TextPart(<<"currentContext">>, Get(currentContext))>> ELSE <<>>)
    \o
    (IF IsSome(docURLs)
     THEN [i \in 1..Len(Get(docURLs)) |-> TextPart(<<"docURLs">>, Get(docURLs)[i])]
     ELSE <<>>)

\* the text parts a form gets for its optional arguments
OptionalParts(currentContext, docURLs) ==
    (IF IsSome(currentContext)
     THEN <<TextPart(<<"currentContext">>, Get(currentContext))>> ELSE <<>>)
    \o
    (IF IsSome(docURLs)
     THEN <<TextPart(<<"docURLs">>, Stringify(JStrArr(Get(docURLs))))>> ELSE <<>>)

\* a variant that passes the client's default headers on
FileHeadersAsDefault(hdrs) == hdrs

\* a variant that authenticates an upload with an x-api-key header
FileHeadersWithApiKey(hdrs) ==
    "x-api-key" :> SubSeq(hdrs["Authorization"], 2, Len(hdrs["Authorization"]))

\* the headers of a multipart request: the Authorization header alone
FileHeaders(hdrs) == "Authorization" :> hdrs["Authorization"]

\* makeRequestWithFile, up to its fetch
MakeRequestWithFile(hdrs, url, input, currentContext, docURLs, file) ==
    Request("POST", url, FileHeaders(hdrs),
            FormBody(<<TextPart(<<"input">>, input)>>
                     \o OptionalParts(currentContext, docURLs)
                     \o <<FilePart(<<"file">>, NormalizeFile(file), GetFileName(file))>>))

\* a variant that builds the form of the synchronous upload
MakeRequestWithFileAsyncUnflagged(hdrs, url, input, currentContext, docURLs, file) ==
    MakeRequestWithFile(hdrs, url, input, currentContext, docURLs, file)

\* makeRequestWithFileAsync, up to its fetch
MakeRequestWithFileAsync(hdrs, url, input, currentContext, docURLs, file) ==
    Request("POST", url, FileHeaders(hdrs),
            FormBody(<<TextPart(<<"input">>, input), TextPart(<<"async">>, <<"true">>)>>
                     \o OptionalParts(currentContext, docURLs)
                     \o <<FilePart(<<"file">>, NormalizeFile(file), GetFileName(file))>>))

\* makeRequest, up to its fetch
MakeRequest(base, hdrs, endpoint, input, currentContext, docURLs, file) ==
    LET url == base \o endpoint IN
    IF IsSome(file)
    THEN MakeRequestWithFile(hdrs, url, input, currentContext, docURLs, Get(file))
    ELSE Request("POST", url, hdrs,
                 JsonBody(Stringify(JObj(<< << <<"input">>, JStr(input) >> >>
                                         \o OptionalMembers(currentContext, docURLs)))))

\* a variant that posts asynchronous generation to a path of its own
MakeRequestAsyncOwnPath(base, hdrs, endpoint, input, currentContext, docURLs, file) ==
    LET url == base \o endpoint \o <<"/async">> IN
    IF IsSome(file)
    THEN MakeRequestWithFileAsync(hdrs, url, input, currentContext, docURLs, Get(file))
    ELSE Request("POST", url, hdrs,
                 JsonBody(Stringify(JObj(<< << <<"input">>, JStr(input) >>,
                                            << <<"async">>, JTrue >> >>
                                         \o OptionalMembers(currentContext, docURLs)))))

\* makeRequestAsync, up to its fetch
MakeRequestAsync(base, hdrs, endpoint, input, currentContext, docURLs, file) ==
    LET url == base \o endpoint IN
    IF IsSome(file)
    THEN MakeRequestWithFileAsync(hdrs, url, input, currentContext, docURLs, Get(file))
    ELSE Request("POST", url, hdrs,
                 JsonBody(Stringify(JObj(<< << <<"input">>, JStr(input) >>,
                                            << <<"async">>, JTrue >> >>
                                         \o OptionalMembers(currentContext, docURLs)))))

----------------------------------------------------------------------------
(* Query strings of the read-only operations.                              *)

\* the application/x-www-form-urlencoded form of one atom
EncodeAtom(c) ==
    CASE c = "^" -> "%5E"
      [] c = " " -> "+"
      [] c = "&" -> "%26"
      [] c = "=" -> "%3D"
      [] c = "+" -> "%2B"
      [] c = "/" -> "%2F"
      [] OTHER -> c

UrlEncode(text) == [i \in 1..Len(text) |-> EncodeAtom(text[i])]

NoParams == [query |-> None, limit |-> None, skip |-> None,
             endpoint |-> None, status |-> None]

\* a variant that tests the numeric filters for truthiness, which drops 0
FilterPairsTruthy(params) ==
    (IF IsSome(params.limit) /\ Get(params.limit) # 0
     THEN << <<"limit", <<ToString(Get(params.limit))>> >> >> ELSE <<>>)
    \o (IF IsSome(params.skip) /\ Get(params.skip) # 0
        THEN << <<"skip", <<ToString(Get(params.skip))>> >> >> ELSE <<>>)
    \o (IF IsSome(params.endpoint) THEN << <<"endpoint", Get(params.endpoint)>> >> ELSE <<>>)
    \o (IF IsSome(params.status) THEN << <<"status", Get(params.status)>> >> ELSE <<>>)

\* the filters appended when they are not undefined, in the code's order
FilterPairs(params) ==
    (IF IsSome(params.limit) THEN << <<"limit", <<ToString(Get(params.limit))>> >> >> ELSE <<>>)
    \o (IF IsSome(params.skip) THEN << <<"skip", <<ToString(Get(params.skip))>> >> >> ELSE <<>>)
    \o (IF IsSome(params.endpoint) THEN << <<"endpoint", Get(params.endpoint)>> >> ELSE <<>>)
    \o (IF IsSome(params.status) THEN << <<"status", Get(params.status)>> >> ELSE <<>>)

\* URLSearchParams.toString()
QueryString(pairs) ==
    JoinWith([i \in 1..Len(pairs) |-> <<pairs[i][1], "=">> \o UrlEncode(pairs[i][2])], <<"&">>)

\* a variant that URL-encodes the identifier
GetSpecStatusRequestEncoded(base, hdrs, specId) ==
    Request("GET", base \o <<"/spec-status/">> \o UrlEncode(specId), hdrs, NoBody)

\* getSpecStatus, up to its fetch
GetSpecStatusRequest(base, hdrs, specId) ==
    Request("GET", base \o <<"/spec-status/">> \o specId, hdrs, NoBody)

\* a variant that also passes the API key as a query parameter
ListSpecsRequestWithKey(base, hdrs, params) ==
    Request("GET",
            base \o <<"/list-specs", "?", "api_key", "=">>
                 \o SubSeq(hdrs["Authorization"], 2, Len(hdrs["Authorization"]))
                 \o (IF FilterPairs(params) = <<>> THEN <<>>
                     ELSE <<"&">> \o QueryString(FilterPairs(params))),
            hdrs, NoBody)

\* listSpecs, up to its fetch
ListSpecsRequest(base, hdrs, params) ==
    LET queryString == QueryString(FilterPairs(params)) IN
    Request("GET",
            base \o <<"/list-specs">>
                 \o (IF queryString # <<>> THEN <<"?">> \o queryString ELSE <<>>),
            hdrs, NoBody)

\* a variant that puts the query into the URL as it is, not URL-encoded
FindSpecsRequestUnencoded(base, hdrs, params) ==
    Request("GET",
            base \o <<"/find-specs", "?", "query", "=">> \o Get(params.query)
                 \o (IF FilterPairs(params) = <<>> THEN <<>>
                     ELSE <<"&">> \o QueryString(FilterPairs(params))),
            hdrs, NoBody)

\* findSpecs, up to its fetch
FindSpecsRequest(base, hdrs, params) ==
    Request("GET",
            base \o <<"/find-specs", "?">>
                 \o QueryString(<< <<"query", Get(params.query)>> >> \o FilterPairs(params)),
            hdrs, NoBody)

\* getCreditsBalance, up to its fetch
GetCreditsBalanceRequest(base, hdrs) ==
    Request("GET", base \o <<"/credits-balance">>, hdrs, NoBody)

----------------------------------------------------------------------------
(* Responses.  A response is [status, body, textReadable]: the status, the *)
(* raw body text, and whether response.text() still yields the body once   *)
(* response.json() has been tried (a fetch Response does not: its body can *)
(* be read once; an object standing in for one may).                       *)

StatusText(status) == <<ToString(status)>>

\* response.ok
IsOk(resp) == resp.status \in 200..299

\* a property read off a parsed body: its value, or JNull for undefined
Prop(j, k) == IF HasMember(j, k) THEN MemberValue(j, k) ELSE JNull

\* JavaScript truthiness of a parsed value
Truthy(j) ==
    CASE j.t = "str" -> j.v # <<>>
      [] j.t = "bool" -> j.v = <<"true">>
      [] j.t = "null" -> FALSE
      [] OTHER -> TRUE

RECURSIVE JSToString(_)
\* the string a template literal makes of a value
JSToString(j) ==
    CASE j.t = "str" -> j.v
      [] j.t = "bool" -> j.v
      [] j.t = "arr" -> JoinWith([i \in 1..Len(j.v) |->
                                    IF j.v[i].t = "null" THEN <<>> ELSE JSToString(j.v[i])],
                                 <<",">>)
      [] j.t = "obj" -> <<"[object Object]">>
      [] OTHER -> <<"null">>

\* a variant that never takes the message from the body
ErrorMessageIgnoringBody(resp) == <<"Unknown error">>

\* the errorMessage handleResponse computes for a status other than 401/429
ErrorMessage(resp) ==
    LET p == JSONParse(resp.body)
        \* response.json() rejects, or reading .error of null throws
        thrown == ~p.ok \/ p.val.t = "null"
    IN IF ~thrown
       THEN IF Truthy(Prop(p.val, <<"error">>)) THEN JSToString(Prop(p.val, <<"error">>))
            ELSE IF Truthy(Prop(p.val, <<"message">>))
                 THEN JSToString(Prop(p.val, <<"message">>))
            ELSE Stringify(p.val)
       ELSE IF resp.textReadable
            THEN (IF resp.body # <<>> THEN resp.body ELSE <<"Unknown error">>)
            ELSE <<"HTTP ">> \o StatusText(resp.status)

\* the generic branch of handleResponse
GenericError(resp) ==
    Rejected("PredevAPIError",
             <<"API request failed with status ">> \o StatusText(resp.status)
                 \o <<": ">> \o ErrorMessage(resp))

\* a variant that accepts a body only when it has the typed field `status`
ParsedBodyValidated(resp) ==
    LET p == JSONParse(resp.body) IN
    IF p.ok /\ HasMember(p.val, <<"status">>) THEN Resolved(p.val)
    ELSE IF p.ok THEN Rejected("PredevAPIError", <<"Invalid response">>)
    ELSE Rejected("SyntaxError", <<"Unexpected token in JSON">>)

\* the 2xx branch of handleResponse
ParsedBody(resp) ==
    LET p == JSONParse(resp.body) IN
    IF p.ok THEN Resolved(p.val)
    ELSE Rejected("SyntaxError", <<"Unexpected token in JSON">>)

\* a variant without the 401 branch
HandleResponseWithout401(resp) ==
    IF IsOk(resp) THEN ParsedBody(resp)
    ELSE IF resp.status = 429
    THEN Rejected("RateLimitError", <<"Rate limit exceeded">>)
    ELSE GenericError(resp)

\* a variant that tests for 429 with the wrong error class
HandleResponse429AsAuth(resp) ==
    IF IsOk(resp) THEN ParsedBody(resp)
    ELSE IF resp.status = 401 \/ resp.status = 429
    THEN Rejected("AuthenticationError", <<"Invalid API key">>)
    ELSE GenericError(resp)

\* handleResponse: the settlement of the promise it returns
HandleResponse(resp) ==
    IF IsOk(resp) THEN ParsedBody(resp)
    ELSE IF resp.status = 401
    THEN Rejected("AuthenticationError", <<"Invalid API key">>)
    ELSE IF resp.status = 429
    THEN Rejected("RateLimitError", <<"Rate limit exceeded">>)
    ELSE GenericError(resp)

\* a variant without the catch block: what fetch threw reaches the caller
CatchFetchErrorMissing(thrown) == Rejected(thrown.class, thrown.message)

\* the catch block around fetch: a PredevAPIError is rethrown, anything else
\* is wrapped; `thrown` is [class, isError, message]
CatchFetchError(thrown) ==
    IF InstanceOf(thrown.class, "PredevAPIError")
    THEN Rejected(thrown.class, thrown.message)
    ELSE Rejected("PredevAPIError", <<"Request failed: ">> \o thrown.message)

\* a variant in which an upload takes Content-Type out of this.headers
HeadersAfterRequestStripped(hdrs, req) ==
    IF req.body.kind = "form" THEN FileHeaders(hdrs) ELSE hdrs

\* a variant in which an upload sets the Content-Type of this.headers
HeadersAfterRequestMultipart(hdrs, req) ==
    IF req.body.kind = "form"
    THEN [hdrs EXCEPT !["Content-Type"] = <<"multipart/form-data">>]
    ELSE hdrs

\* this.headers once an operation has built its request: every operation
\* reads this.headers (an upload copies Authorization into a headers object
\* of its own) and none assigns to it
HeadersAfterRequest(hdrs, req) == hdrs

NoResponse == [status |-> 0, body |-> <<>>, textReadable |-> FALSE]
NoThrown == [class |-> "", isError |-> FALSE, message |-> <<>>]
NoOutcome == [kind |-> "none", response |-> NoResponse, thrown |-> NoThrown]
\* fetch resolved with a response / rejected with a thrown value
Answered(resp) == [kind |-> "response", response |-> resp, thrown |-> NoThrown]
Failed(err) == [kind |-> "error", response |-> NoResponse, thrown |-> err]
NoCall == [op |-> "", input |-> <<>>, currentContext |-> None, docURLs |-> None,
           file |-> None, outputFormat |-> None, specId |-> <<>>, params |-> NoParams]

\* a call that has not been made
IdleSide == [pc |-> "idle", call |-> NoCall, fetched |-> <<>>,
             outcome |-> NoOutcome, result |-> Pending]

\* deploy.sh is not running
NoDeploy == [mode |-> "none", only |-> "both", USE_DOPPLER |-> TRUE, pc |-> "off", ran |-> {},
             node |-> "none", nodeCode |-> 0, python |-> "none", pythonCode |-> 0,
             NODE_EXIT_CODE |-> 0, PYTHON_EXIT_CODE |-> 0,
             printed |-> {}, exited |-> FALSE, status |-> 0]

\* no script is polling
NoPoll == [loop |-> "none", pc |-> "off", attempts |-> 0, checks |-> 0,
           seen |-> "", verdicts |-> {}]

\* a variant that fetches again when the answer is 429
AfterFetchRetrying429(reqs, out) ==
    IF out.kind = "response" /\ out.response.status = 429 /\ Len(reqs) < 3
    THEN [pc |-> "awaiting", fetched |-> Append(reqs, reqs[Len(reqs)]), result |-> Pending]
    ELSE [pc |-> "settled",
          fetched |-> reqs,
          result |-> IF out.kind = "response" THEN HandleResponse(out.response)
                     ELSE CatchFetchError(out.thrown)]

\* a variant that keeps asking for the status while the answer says "pending"
AfterFetchPollingStatus(reqs, out) ==
    IF /\ out.kind = "response"
       /\ IsOk(out.response)
       /\ Contains(out.response.body, <<"pending">>)
       /\ Len(reqs) < 3
    THEN [pc |-> "awaiting",
          fetched |-> Append(reqs, Request("GET", <<"/spec-status/", "spec_123">>,
                                           reqs[1].headers, NoBody)),
          result |-> Pending]
    ELSE [pc |-> "settled",
          fetched |-> reqs,
          result |-> IF out.kind = "response" THEN HandleResponse(out.response)
                     ELSE CatchFetchError(out.thrown)]

\* what an operation does with the outcome of its fetch: the promise settles
\* with handleResponse's settlement, or with the wrapped transport error,
\* and nothing more is fetched.
AfterFetch(reqs, out) ==
    [pc |-> "settled",
     fetched |-> reqs,
     result |-> IF out.kind = "response" THEN HandleResponse(out.response)
                ELSE CatchFetchError(out.thrown)]

----------------------------------------------------------------------------
(* The inputs the model draws from.                                        *)

\* the configurations a client is constructed with: {apiKey, baseUrl?}
Configs == {[apiKey |-> <<"key_A">>, baseUrl |-> None],
            [apiKey |-> <<"key_B">>, baseUrl |-> Some(<<"https://custom.api.com", "/">>)]}

Inputs == {<<"Build a todo app">>, <<"say ", QUOTE, "hi", QUOTE, BSLASH, NEWLINE>>}
Contexts == {None, Some(<<>>), Some(<<"existing ", QUOTE, "app", QUOTE>>)}
URLs == {<<"https://docs.a.dev">>, <<"https://b.dev/?q=", QUOTE, "x", QUOTE, ",">>}
URLLists == UNION {[1..n -> URLs] : n \in 0..MaxURLs}
DocURLs == {None} \cup {Some(l) : l \in URLLists}
Files == {None,
          Some(BlobFile(<<"application/pdf">>, None)),
          Some(BlobFile(<<"application/pdf">>, Some(<<"requirements.pdf">>))),
          Some(DataFile(Some(<<"requirements.pdf">>)))}

OutputFormats == {<<"markdown">>, <<"url">>}

SpecIds == {<<"spec_123">>, <<"a", "/", "b">>}
Queries == {<<"^", "Build">>, <<"auth">>}
ListParams == [query : {None}, limit : {None, Some(0), Some(10), Some(500)},
               skip : {None, Some(0), Some(5)},
               endpoint : {None, Some(<<"fast_spec">>)},
               status : {None, Some(<<"completed">>)}]
FindParams == [query : {Some(q) : q \in Queries}, limit : {None, Some(0), Some(10), Some(500)},
               skip : {None, Some(0), Some(5)},
               endpoint : {None, Some(<<"fast_spec">>)},
               status : {None, Some(<<"completed">>)}]

Statuses == {200, 201, 400, 401, 429, 500}
Bodies == {
    <<>>,
    <<"Bad Gateway">>,
    <<"null">>,
    <<"{", "}">>,
    <<"{", QUOTE, "error", QUOTE, ":", QUOTE, "X", QUOTE, "}">>,
    <<"{", QUOTE, "error", QUOTE, ":", QUOTE, QUOTE, ",",
           QUOTE, "message", QUOTE, ":", QUOTE, "M", QUOTE, "}">>,
    <<"{", QUOTE, "specId", QUOTE, ":", QUOTE, "spec_123", QUOTE, ",",
           QUOTE, "status", QUOTE, ":", QUOTE, "pending", QUOTE, "}">> }
Responses == [status : Statuses, body : Bodies, textReadable : BOOLEAN]

\* what fetch rejects with: an Error (a TypeError from fetch itself) with a
\* message, or a value that is no Error and is turned into text by String()
TransportErrors == {
    [class |-> "TypeError", isError |-> TRUE, message |-> <<"fetch failed">>],
    [class |-> "Error", isError |-> TRUE, message |-> <<"Network error">>],
    [class |-> "", isError |-> FALSE, message |-> <<"timeout">>] }

GenerationOps == {"fastSpec", "deepSpec", "fastSpecAsync", "deepSpecAsync"}
AsyncOps == {"fastSpecAsync", "deepSpecAsync"}
ReadOps == {"getSpecStatus", "listSpecs", "findSpecs", "getCreditsBalance"}

----------------------------------------------------------------------------
(* Construction and the operations.                                        *)

\* new PredevAPI(config)
Init ==
    /\ \E cfg \in Configs :
          /\ apiKey = cfg.apiKey
          /\ baseUrl = NormalizeBaseUrl(cfg.baseUrl)
          /\ headers = DefaultHeaders(cfg.apiKey)
    /\ pc = "idle"
    /\ call = NoCall
    /\ fetched = <<>>
    /\ outcome = NoOutcome
    /\ result = Pending
    /\ log = <<>>
    /\ side = IdleSide
    /\ poll = NoPoll
    /\ job = "none"
    /\ deploy = NoDeploy

\* an operation runs up to its fetch: the request is handed to the transport
Dispatch(c, req) ==
    /\ pc = "idle"
    /\ pc' = "awaiting"
    /\ call' = c
    /\ fetched' = <<req>>
    /\ outcome' = NoOutcome
    /\ result' = Pending
    /\ headers' = HeadersAfterRequest(headers, req)
    /\ UNCHANGED <<apiKey, baseUrl, log, side, poll, job, deploy>>

GenerationCall(op, input, currentContext, docURLs, file) ==
    [NoCall EXCEPT !.op = op, !.input = input, !.currentContext = currentContext,
                   !.docURLs = docURLs, !.file = file]

FastSpec ==
    \E input \in Inputs, currentContext \in Contexts, docURLs \in DocURLs, file \in Files :
        Dispatch(GenerationCall("fastSpec", input, currentContext, docURLs, file),
                 MakeRequest(baseUrl, headers, <<"/fast-spec">>,
                             input, currentContext, docURLs, file))

\* client.fastSpec({input, outputFormat}): fastSpec passes on input,
\* currentContext, docURLs and file, and no other property of its options
FastSpecWithOutputFormat ==
    \E input \in Inputs, outputFormat \in OutputFormats :
        Dispatch([GenerationCall("fastSpec", input, None, None, None)
                      EXCEPT !.outputFormat = Some(outputFormat)],
                 MakeRequest(baseUrl, headers, <<"/fast-spec">>, input, None, None, None))

DeepSpec ==
    \E input \in Inputs, currentContext \in Contexts, docURLs \in DocURLs, file \in Files :
        Dispatch(GenerationCall("deepSpec", input, currentContext, docURLs, file),
                 MakeRequest(baseUrl, headers, <<"/deep-spec">>,
                             input, currentContext, docURLs, file))

FastSpecAsync ==
    \E input \in Inputs, currentContext \in Contexts, docURLs \in DocURLs, file \in Files :
        Dispatch(GenerationCall("fastSpecAsync", input, currentContext, docURLs, file),
                 MakeRequestAsync(baseUrl, headers, <<"/fast-spec">>,
                                  input, currentContext, docURLs, file))

DeepSpecAsync ==
    \E input \in Inputs, currentContext \in Contexts, docURLs \in DocURLs, file \in Files :
        Dispatch(GenerationCall("deepSpecAsync", input, currentContext, docURLs, file),
                 MakeRequestAsync(baseUrl, headers, <<"/deep-spec">>,
                                  input, currentContext, docURLs, file))

GetSpecStatus ==
    \E specId \in SpecIds :
        Dispatch([NoCall EXCEPT !.op = "getSpecStatus", !.specId = specId],
                 GetSpecStatusRequest(baseUrl, headers, specId))

ListSpecs ==
    \E params \in ListParams :
        Dispatch([NoCall EXCEPT !.op = "listSpecs", !.params = params],
                 ListSpecsRequest(baseUrl, headers, params))

FindSpecs ==
    \E params \in FindParams :
        Dispatch([NoCall EXCEPT !.op = "findSpecs", !.params = params],
                 FindSpecsRequest(baseUrl, headers, params))

GetCreditsBalance ==
    Dispatch([NoCall EXCEPT !.op = "getCreditsBalance"],
             GetCreditsBalanceRequest(baseUrl, headers))

\* the continuation of the operation once its fetch has an outcome
Continue(out) ==
    LET next == AfterFetch(fetched, out) IN
    /\ outcome' = out
    /\ pc' = next.pc
    /\ fetched' = next.fetched
    /\ result' = next.result
    /\ UNCHANGED <<config, call, log, side, poll, job, deploy>>

\* the transport answers with a response: handleResponse classifies it
FetchResolves ==
    /\ pc = "awaiting"
    /\ \E resp \in Responses : Continue(Answered(resp))

\* the transport fails before any status is obtained
FetchRejects ==
    /\ pc = "awaiting"
    /\ \E err \in TransportErrors : Continue(Failed(err))

\* the caller takes the settlement; the client is ready for the next call
Return ==
    /\ pc = "settled"
    /\ pc' = "idle"
    /\ call' = NoCall
    /\ fetched' = <<>>
    /\ outcome' = NoOutcome
    /\ result' = Pending
    /\ UNCHANGED <<config, log, side, poll, job, deploy>>

Next ==
    \/ FastSpec
    \/ FastSpecWithOutputFormat
    \/ DeepSpec
    \/ FastSpecAsync
    \/ DeepSpecAsync
    \/ GetSpecStatus
    \/ ListSpecs
    \/ FindSpecs
    \/ GetCreditsBalance
    \/ FetchResolves
    \/ FetchRejects
    \/ Return

Spec == Init /\ [][Next]_vars

----------------------------------------------------------------------------
(* Properties.                                                             *)

AllOps == GenerationOps \cup ReadOps

\* the operation in progress got a response with this status
GotStatus(status) ==
    pc = "settled" /\ outcome.kind = "response" /\ outcome.response.status = status

\* the operation in progress got a response that is neither 2xx, 401 nor 429
GotOtherError ==
    /\ pc = "settled"
    /\ outcome.kind = "response"
    /\ ~IsOk(outcome.response)
    /\ outcome.response.status \notin {401, 429}

\* C1: whatever the operation and whatever the body, a 401 response rejects
\* the call with an AuthenticationError "Invalid API key", which is no
\* RateLimitError.
C1_Status401IsAuthenticationError ==
    GotStatus(401) =>
        /\ call.op \in AllOps
        /\ result.kind = "rejected"
        /\ result.class = "AuthenticationError"
        /\ result.message = <<"Invalid API key">>
        /\ ~InstanceOf(result.class, "RateLimitError")

\* a file upload in async mode answered 401 with an error body
C1_Witness ==
    /\ GotStatus(401)
    /\ call.op = "fastSpecAsync"
    /\ IsSome(call.file)
    /\ JSONParse(outcome.response.body).ok
    /\ HasMember(JSONParse(outcome.response.body).val, <<"error">>)
    /\ result.class = "AuthenticationError"

\* C2: whatever the operation and whatever the body, a 429 response rejects
\* the call with a RateLimitError "Rate limit exceeded", which is no
\* AuthenticationError, and the call has fetched once only.
C2_Status429IsRateLimitError ==
    GotStatus(429) =>
        /\ call.op \in AllOps
        /\ result.kind = "rejected"
        /\ result.class = "RateLimitError"
        /\ result.message = <<"Rate limit exceeded">>
        /\ ~InstanceOf(result.class, "AuthenticationError")
        /\ Len(fetched) = 1

\* a search answered 429 with a body that is no JSON
C2_Witness ==
    /\ GotStatus(429)
    /\ call.op = "findSpecs"
    /\ ~JSONParse(outcome.response.body).ok
    /\ result.class = "RateLimitError"
    /\ Len(fetched) = 1

\* the body of the response is a JSON object whose `error` is a non-empty string
HasErrorField ==
    LET p == JSONParse(outcome.response.body) IN
    /\ p.ok
    /\ HasMember(p.val, <<"error">>)
    /\ MemberValue(p.val, <<"error">>).t = "str"
    /\ MemberValue(p.val, <<"error">>).v # <<>>

ErrorField == MemberValue(JSONParse(outcome.response.body).val, <<"error">>).v

\* C3: a non-2xx status other than 401 and 429 whose body is a JSON object
\* with a non-empty `error` X rejects the call with a plain PredevAPIError
\* whose message contains X and the status code.
C3_ErrorFieldInMessage ==
    (GotOtherError /\ HasErrorField) =>
        /\ result.kind = "rejected"
        /\ result.class = "PredevAPIError"
        /\ Contains(result.message, ErrorField)
        /\ Contains(result.message, StatusText(outcome.response.status))

\* a 500 with {"error": "X"} in answer to a deep spec
C3_Witness ==
    /\ GotOtherError
    /\ HasErrorField
    /\ outcome.response.status = 500
    /\ ErrorField = <<"X">>
    /\ call.op = "deepSpec"
    /\ Contains(result.message, <<"X">>)

\* the body of the response cannot be parsed as JSON
BodyUnparseable == ~JSONParse(outcome.response.body).ok

\* C4: a non-2xx response (other than 401/429) whose body is no JSON rejects
\* the call with a PredevAPIError whose message ends with the raw response
\* text, or with `HTTP <status>` when that text is empty; no parsing
\* exception reaches the caller instead.
C4_RawTextThenHttpStatus ==
    (GotOtherError /\ BodyUnparseable) =>
        /\ result.kind = "rejected"
        /\ result.class = "PredevAPIError"
        /\ result.message =
              <<"API request failed with status ">>
                  \o StatusText(outcome.response.status) \o <<": ">>
                  \o (IF outcome.response.body # <<>> THEN outcome.response.body
                      ELSE <<"HTTP ">> \o StatusText(outcome.response.status))

\* the fetch of the operation in progress was rejected by the transport
TransportFailed == pc = "settled" /\ outcome.kind = "error"

\* C5: when fetch rejects, the call is rejected with a plain PredevAPIError
\* whose message contains the message of what fetch threw and is not a
\* status-bearing "API request failed with status" message.
C5_TransportErrorIsWrapped ==
    TransportFailed =>
        /\ call.op \in AllOps
        /\ result.kind = "rejected"
        /\ result.class = "PredevAPIError"
        /\ Contains(result.message, outcome.thrown.message)
        /\ ~Contains(result.message, <<"API request failed with status ">>)

\* the status check fails with fetch's own TypeError
C5_Witness ==
    /\ TransportFailed
    /\ call.op = "getSpecStatus"
    /\ outcome.thrown.class = "TypeError"
    /\ result.message = <<"Request failed: ", "fetch failed">>

\* C6: an operation in progress or settled has handed exactly one request
\* to fetch, whatever the outcome; between calls nothing is fetched.
C6_OneRequestPerCall ==
    /\ pc = "idle" => fetched = <<>>
    /\ pc \in {"awaiting", "settled"} => Len(fetched) = 1

\* every outcome has been seen with one request only: here a failed list call
C6_Witness ==
    /\ pc = "settled"
    /\ call.op = "listSpecs"
    /\ outcome.kind = "response"
    /\ outcome.response.status = 500
    /\ result.class = "PredevAPIError"
    /\ Len(fetched) = 1

\* a generation operation has built and sent its request
GenerationSent == pc \in {"awaiting", "settled"} /\ call.op \in GenerationOps

\* the request the operation in progress handed to fetch
Sent == fetched[1]

\* the decoding of the JSON body of the request sent
Decoded == JSONParse(Sent.body.text)

\* the body of the request sent carries a field of this name
BodyHasField(name) ==
    IF Sent.body.kind = "json"
    THEN Decoded.ok /\ HasMember(Decoded.val, name)
    ELSE \E i \in 1..Len(Sent.body.parts) : Sent.body.parts[i].name = name

\* C7: a generation request is a JSON text with Content-Type
\* application/json exactly when no file is supplied; with a file the body
\* is a multipart form and the headers handed to fetch have no Content-Type.
C7_EncodingSelection ==
    GenerationSent =>
        /\ (~IsSome(call.file)) <=>
              /\ Sent.body.kind = "json"
              /\ "Content-Type" \in DOMAIN Sent.headers
              /\ Sent.headers["Content-Type"] = <<"application/json">>
        /\ IsSome(call.file) =>
              /\ Sent.body.kind = "form"
              /\ "Content-Type" \notin DOMAIN Sent.headers
              /\ \A h \in DOMAIN Sent.headers : Sent.headers[h] # <<"application/json">>

\* a fast spec with a file: a form, and the Authorization header alone
C7_Witness ==
    /\ GenerationSent
    /\ call.op = "fastSpec"
    /\ IsSome(call.file)
    /\ Sent.body.kind = "form"
    /\ DOMAIN Sent.headers = {"Authorization"}

\* C8: the body of a generation request has a `currentContext` field exactly
\* when currentContext was supplied and a `docURLs` field exactly when
\* docURLs was supplied, and no field of a JSON body is null.
C8_OptionalFieldsOmitted ==
    GenerationSent =>
        /\ BodyHasField(<<"currentContext">>) <=> IsSome(call.currentContext)
        /\ BodyHasField(<<"docURLs">>) <=> IsSome(call.docURLs)
        /\ Sent.body.kind = "json" =>
              /\ Decoded.ok
              /\ \A i \in 1..Len(Decoded.val.v) : Decoded.val.v[i][2].t # "null"

\* an empty context is supplied, and sent; no URL list is supplied, none sent
C8_Witness ==
    /\ GenerationSent
    /\ call.op = "deepSpecAsync"
    /\ Sent.body.kind = "json"
    /\ call.currentContext = Some(<<>>)
    /\ call.docURLs = None
    /\ BodyHasField(<<"currentContext">>)
    /\ ~BodyHasField(<<"docURLs">>)

\* the fields the caller supplied to the generation call in progress
SuppliedFields ==
    { << <<"input">>, JStr(call.input) >> }
    \cup (IF IsSome(call.currentContext)
          THEN { << <<"currentContext">>, JStr(Get(call.currentContext)) >> } ELSE {})
    \cup (IF IsSome(call.docURLs)
          THEN { << <<"docURLs">>, JStrArr(Get(call.docURLs)) >> } ELSE {})

\* the fields of the decoded JSON body
DecodedFields == { Decoded.val.v[i] : i \in 1..Len(Decoded.val.v) }

\* a generation operation has sent a request without a file
JsonGenerationSent == GenerationSent /\ ~IsSome(call.file)

\* C9 as stated: decoding the body of any non-file generation request gives
\* exactly the fields supplied, with equal values, the URLs in order.
C9_RoundTripExactlySupplied ==
    JsonGenerationSent =>
        /\ Decoded.ok
        /\ Decoded.val.t = "obj"
        /\ DecodedFields = SuppliedFields

\* C9 as amended: decoding the body gives the fields supplied, with equal
\* values and the URLs in order, and for fastSpecAsync and deepSpecAsync
\* the field async: true besides them; nothing else.
C9_RoundTripSuppliedAndAsync ==
    JsonGenerationSent =>
        /\ Decoded.ok
        /\ Decoded.val.t = "obj"
        /\ DecodedFields =
              SuppliedFields \cup
              (IF call.op \in AsyncOps THEN { << <<"async">>, JTrue >> } ELSE {})

\* a description with quotes, a backslash and a newline, a context with
\* quotes and two different URLs come back as they were given, beside the
\* async flag of the asynchronous call
C9_Witness ==
    /\ JsonGenerationSent
    /\ call.op = "deepSpecAsync"
    /\ << <<"async">>, JTrue >> \in DecodedFields
    /\ call.input = <<"say ", QUOTE, "hi", QUOTE, BSLASH, NEWLINE>>
    /\ IsSome(call.currentContext) /\ Get(call.currentContext) # <<>>
    /\ IsSome(call.docURLs)
    /\ Len(Get(call.docURLs)) = 2
    /\ Get(call.docURLs)[1] # Get(call.docURLs)[2]
    /\ Decoded.ok
    /\ MemberValue(Decoded.val, <<"docURLs">>) = JStrArr(Get(call.docURLs))
    /\ MemberValue(Decoded.val, <<"input">>) = JStr(call.input)

\* C10: a request of fastSpecAsync or deepSpecAsync carries the async flag
\* (JSON member async: true, or form part async = "true"), and a request of
\* fastSpec or deepSpec carries no async field in either encoding.
C10_AsyncFlag ==
    GenerationSent =>
        /\ call.op \in AsyncOps =>
              IF Sent.body.kind = "json"
              THEN /\ Decoded.ok
                   /\ HasMember(Decoded.val, <<"async">>)
                   /\ MemberValue(Decoded.val, <<"async">>) = JTrue
              ELSE \E i \in 1..Len(Sent.body.parts) :
                      /\ Sent.body.parts[i].name = <<"async">>
                      /\ Sent.body.parts[i].kind = "text"
                      /\ Sent.body.parts[i].value = <<"true">>
        /\ call.op \notin AsyncOps => ~BodyHasField(<<"async">>)

\* a deep async spec with a file carries the form part async = "true"
C10_Witness ==
    /\ GenerationSent
    /\ call.op = "deepSpecAsync"
    /\ IsSome(call.file)
    /\ Sent.body.kind = "form"
    /\ \E i \in 1..Len(Sent.body.parts) :
          Sent.body.parts[i].name = <<"async">> /\ Sent.body.parts[i].value = <<"true">>

----------------------------------------------------------------------------
(* Asynchronous generation.                                                *)

AsyncCall == call.op \in AsyncOps

\* the handle an asynchronous call is answered with, still pending
PendingHandle ==
    <<"{", QUOTE, "specId", QUOTE, ":", QUOTE, "spec_123", QUOTE, ",",
           QUOTE, "status", QUOTE, ":", QUOTE, "pending", QUOTE, "}">>

\* C11: fastSpecAsync and deepSpecAsync settle on the response to their one
\* POST: while the call runs the only request handed to fetch is that POST
\* (never a request for the status of the specification), the call is not
\* left waiting once the response is there, and a 2xx answer resolves the
\* call with the handle as received, whatever status the handle reports.
C11_AsyncSettlesOnPostResponse ==
    (pc \in {"awaiting", "settled"} /\ AsyncCall) =>
        /\ Len(fetched) = 1
        /\ fetched[1].method = "POST"
        /\ ~Contains(fetched[1].url, <<"/spec-status/">>)
        /\ pc = "awaiting" => outcome.kind = "none"
        /\ (pc = "settled" /\ GotStatus(200) /\ JSONParse(outcome.response.body).ok) =>
              /\ result.kind = "resolved"
              /\ result.value = JSONParse(outcome.response.body).val

\* deepSpecAsync answered 200 with a handle that says "pending": the call
\* is resolved with that handle, its status still "pending"
C11_Witness ==
    /\ pc = "settled"
    /\ call.op = "deepSpecAsync"
    /\ outcome.kind = "response"
    /\ outcome.response.status = 200
    /\ outcome.response.body = PendingHandle
    /\ result.kind = "resolved"
    /\ MemberValue(result.value, <<"status">>) = JStr(<<"pending">>)
    /\ Len(fetched) = 1

----------------------------------------------------------------------------
(* Authentication.                                                         *)

\* the headers of a request that carry a credential
CredentialHeaders(req) == DOMAIN req.headers \cap {"Authorization", "x-api-key"}

\* C12: every request handed to fetch, JSON, multipart or GET, carries one
\* credential header, Authorization, whose value is "Bearer " followed by
\* the API key the client was constructed with; none carries x-api-key.
C12_BearerAuthorizationOnly ==
    \A i \in 1..Len(fetched) :
        /\ CredentialHeaders(fetched[i]) = {"Authorization"}
        /\ fetched[i].headers["Authorization"] = <<"Bearer ">> \o apiKey
        /\ \E cfg \in Configs : apiKey = cfg.apiKey

\* a multipart upload in flight for the client constructed with key_B
C12_Witness ==
    /\ pc = "awaiting"
    /\ fetched[1].body.kind = "form"
    /\ fetched[1].headers["Authorization"] = <<"Bearer ", "key_B">>
    /\ DOMAIN fetched[1].headers = {"Authorization"}

----------------------------------------------------------------------------
(* Success.                                                                *)

\* the operation in progress got a 2xx response whose body is JSON
GotJson ==
    /\ pc = "settled"
    /\ outcome.kind = "response"
    /\ outcome.response.status \in 200..299
    /\ JSONParse(outcome.response.body).ok

\* C13: whatever the operation, a 2xx response with a JSON body resolves the
\* call with the value that body denotes: encoding the value again gives
\* the text that was received, with no field added, removed or required.
C13_SuccessReturnsBodyAsReceived ==
    GotJson =>
        /\ result.kind = "resolved"
        /\ result.value = JSONParse(outcome.response.body).val
        /\ Stringify(result.value) = outcome.response.body

\* getCreditsBalance answered 201 with the body {} : the call is resolved
\* with the empty object, although it has none of the typed fields
C13_Witness ==
    /\ GotJson
    /\ call.op = "getCreditsBalance"
    /\ outcome.response.status = 201
    /\ outcome.response.body = <<"{", "}">>
    /\ result = Resolved(JObj(<<>>))

----------------------------------------------------------------------------
(* The name of the file part.                                              *)

\* the file part of the multipart request in flight
SentFilePart ==
    LET parts == fetched[1].body.parts
    IN parts[CHOOSE i \in 1..Len(parts) : parts[i].kind = "file"]

\* an upload is in progress
Uploading == pc \in {"awaiting", "settled"} /\ IsSome(call.file)

\* the attachment has a name of its own
HasOwnName(file) == IsSome(file.name) /\ Get(file.name) # <<>>

\* C14: the file part of a multipart request is named with the attachment's
\* own name whenever it has one, be it a {data, name} object or a named
\* Blob; without a name it is called upload.pdf when the declared content
\* type is application/pdf and upload.txt otherwise.
C14_FilePartNamedByAttachment ==
    Uploading =>
        LET file == Get(call.file) IN
        SentFilePart.filename =
            IF HasOwnName(file) THEN Get(file.name)
            ELSE IF file.isBlob /\ file.type = <<"application/pdf">> THEN <<"upload.pdf">>
            ELSE <<"upload.txt">>

----------------------------------------------------------------------------
(* Query strings, read back from the URL that was fetched.                 *)

\* the pieces of `text` between the occurrences of the atom `sep`
RECURSIVE SplitOn(_, _, _)
SplitOn(text, sep, piece) ==
    IF text = <<>> THEN <<piece>>
    ELSE IF Head(text) = sep THEN <<piece>> \o SplitOn(Tail(text), sep, <<>>)
    ELSE SplitOn(Tail(text), sep, Append(piece, Head(text)))

\* the part of a URL after its first "?", or nothing when it has none
QueryOf(url) ==
    IF \E i \in 1..Len(url) : url[i] = "?"
    THEN SubSeq(url, 1 + (CHOOSE i \in 1..Len(url) :
                             url[i] = "?" /\ \A j \in 1..(i - 1) : url[j] # "?"),
                Len(url))
    ELSE <<>>

\* the name=value pieces of a URL's query string, in order
QueryPieces(url) == IF QueryOf(url) = <<>> THEN <<>> ELSE SplitOn(QueryOf(url), "&", <<>>)

\* the value a URL's query string gives to `name`, still encoded
QueryValues(url, name) ==
    LET ps == QueryPieces(url) IN
    {Tail(Tail(ps[i])) : i \in {j \in 1..Len(ps) :
                                   Len(ps[j]) >= 2 /\ ps[j][1] = name /\ ps[j][2] = "="}}

\* the text of the filters a caller supplied, by name
SuppliedFilters(params) ==
    (IF IsSome(params.limit) THEN {<<"limit", <<ToString(Get(params.limit))>> >>} ELSE {})
    \cup (IF IsSome(params.skip) THEN {<<"skip", <<ToString(Get(params.skip))>> >>} ELSE {})
    \cup (IF IsSome(params.endpoint) THEN {<<"endpoint", Get(params.endpoint)>>} ELSE {})
    \cup (IF IsSome(params.status) THEN {<<"status", Get(params.status)>>} ELSE {})

\* the URL's query string has the supplied filters, each once, and no other
\* piece besides the `extra` leading ones
CarriesFilters(url, params, extra) ==
    /\ Len(QueryPieces(url)) = extra + Cardinality(SuppliedFilters(params))
    /\ \A name \in {"limit", "skip", "endpoint", "status"} :
          QueryValues(url, name) = {f[2] : f \in {g \in SuppliedFilters(params) : g[1] = name}}

Listing == pc \in {"awaiting", "settled"} /\ call.op = "listSpecs"

\* C15: the URL listSpecs fetches has limit, skip, endpoint and status in
\* its query string exactly when the caller supplied them, each with the
\* value as given (0 is sent, 500 is not clamped); limit 10 and skip 5
\* alone give ?limit=10&skip=5, and no filter gives no query string.
C15_ListSpecsQuery ==
    Listing =>
        LET url == fetched[1].url
            only(l, s) == call.params = [NoParams EXCEPT !.limit = l, !.skip = s]
        IN /\ CarriesFilters(url, call.params, 0)
           /\ only(Some(10), Some(5)) =>
                 url = baseUrl \o <<"/list-specs", "?", "limit", "=", "10", "&",
                                    "skip", "=", "5">>
           /\ only(Some(0), None) =>
                 url = baseUrl \o <<"/list-specs", "?", "limit", "=", "0">>
           /\ only(Some(500), Some(0)) =>
                 url = baseUrl \o <<"/list-specs", "?", "limit", "=", "500", "&",
                                    "skip", "=", "0">>
           /\ only(None, None) => url = baseUrl \o <<"/list-specs">>

\* listSpecs({limit: 0, skip: 5, status: "completed"}) is in flight
C15_Witness ==
    /\ Listing
    /\ call.params = [NoParams EXCEPT !.limit = Some(0), !.skip = Some(5),
                                      !.status = Some(<<"completed">>)]
    /\ fetched[1].url = <<"https://api.pre.dev", "/list-specs", "?", "limit", "=", "0", "&",
                          "skip", "=", "5", "&", "status", "=", "completed">>

\* what a server reads from an encoded atom of a query string
DecodeAtom(c) ==
    CASE c = "%5E" -> "^"
      [] c = "+" -> " "
      [] c = "%26" -> "&"
      [] c = "%3D" -> "="
      [] c = "%2B" -> "+"
      [] c = "%2F" -> "/"
      [] OTHER -> c

UrlDecode(text) == [i \in 1..Len(text) |-> DecodeAtom(text[i])]

Finding == pc \in {"awaiting", "settled"} /\ call.op = "findSpecs"

\* C16: the URL findSpecs fetches always has the query parameter, URL-encoded
\* and otherwise as given (the pattern ^Build is sent as query=%5EBuild),
\* followed by exactly the filters the caller supplied; a pattern the server
\* rejects with status 400 ends in a PredevAPIError that is neither an
\* AuthenticationError nor a RateLimitError.
C16_FindSpecsQuery ==
    Finding =>
        LET url == fetched[1].url
            query == Get(call.params.query)
        IN /\ SubSeq(url, 1, Len(baseUrl) + 2) = baseUrl \o <<"/find-specs", "?">>
           /\ QueryValues(url, "query") = {UrlEncode(query)}
           /\ \A v \in QueryValues(url, "query") : UrlDecode(v) = query
           /\ QueryPieces(url)[1][1] = "query"
           /\ query = <<"^", "Build">> =>
                 QueryPieces(url)[1] = <<"query", "=", "%5E", "Build">>
           /\ CarriesFilters(url, call.params, 1)
           /\ GotStatus(400) =>
                 /\ result.kind = "rejected"
                 /\ result.class = "PredevAPIError"
                 /\ ~InstanceOf(result.class, "AuthenticationError")
                 /\ ~InstanceOf(result.class, "RateLimitError")

\* findSpecs({query: "^Build", limit: 10}) answered 400 with {"error":"X"}
C16_Witness ==
    /\ Finding
    /\ GotStatus(400)
    /\ call.params = [NoParams EXCEPT !.query = Some(<<"^", "Build">>), !.limit = Some(10)]
    /\ QueryOf(fetched[1].url) = <<"query", "=", "%5E", "Build", "&", "limit", "=", "10">>
    /\ outcome.response.body = <<"{", QUOTE, "error", QUOTE, ":", QUOTE, "X", QUOTE, "}">>
    /\ result = Rejected("PredevAPIError",
                         <<"API request failed with status ", "400", ": ", "X">>)

----------------------------------------------------------------------------
(* Successive calls on one client.  The observer keeps, for every call     *)
(* that returned, the call, the requests it fetched, the outcome of its    *)
(* fetch and its settlement.                                               *)

MaxCalls == 3

CompletedStatus ==
    <<"{", QUOTE, "specId", QUOTE, ":", QUOTE, "spec_123", QUOTE, ",",
           QUOTE, "status", QUOTE, ":", QUOTE, "completed", QUOTE, "}">>

SeqResponses ==
    {[status |-> 200, body |-> PendingHandle, textReadable |-> FALSE],
     [status |-> 200, body |-> CompletedStatus, textReadable |-> FALSE],
     [status |-> 500, body |-> <<"{", QUOTE, "error", QUOTE, ":", QUOTE, "X", QUOTE, "}">>,
      textReadable |-> FALSE]}

\* client.getSpecStatus(specId), while the observer still keeps count
SeqGetSpecStatus ==
    /\ Len(log) < MaxCalls
    /\ GetSpecStatus

\* client.fastSpec({input, file}): an upload
FastSpecWithFile ==
    LET file == Some(DataFile(Some(<<"requirements.pdf">>)))
        input == <<"Build a todo app">>
    IN Dispatch(GenerationCall("fastSpec", input, None, None, file),
                MakeRequest(baseUrl, headers, <<"/fast-spec">>, input, None, None, file))

SeqUpload ==
    /\ Len(log) < MaxCalls
    /\ FastSpecWithFile

SeqFetchResolves ==
    /\ pc = "awaiting"
    /\ \E resp \in SeqResponses : Continue(Answered(resp))

SeqFetchRejects ==
    /\ pc = "awaiting"
    /\ Continue(Failed([class |-> "TypeError", isError |-> TRUE,
                        message |-> <<"fetch failed">>]))

\* the caller takes the settlement and the observer puts the call on record
SeqReturn ==
    /\ pc = "settled"
    /\ log' = Append(log, [call |-> call, fetched |-> fetched,
                           outcome |-> outcome, result |-> result])
    /\ pc' = "idle"
    /\ call' = NoCall
    /\ fetched' = <<>>
    /\ outcome' = NoOutcome
    /\ result' = Pending
    /\ UNCHANGED <<config, side, poll, job, deploy>>

NextSeq ==
    \/ SeqGetSpecStatus
    \/ SeqUpload
    \/ SeqFetchResolves
    \/ SeqFetchRejects
    \/ SeqReturn

SpecSeq == Init /\ [][NextSeq]_vars

\* the calls on record and the one in progress, oldest first
Calls ==
    IF pc = "idle" THEN log
    ELSE Append(log, [call |-> call, fetched |-> fetched,
                      outcome |-> outcome, result |-> result])

StatusCalls == {i \in 1..Len(Calls) : Calls[i].call.op = "getSpecStatus"}

\* the requests for the status of `specId` fetched so far
StatusRequests(specId) ==
    UNION {{<<i, j>> : j \in {k \in 1..Len(Calls[i].fetched) :
                                  Calls[i].fetched[k].url =
                                      baseUrl \o <<"/spec-status/">> \o specId}} :
           i \in 1..Len(Calls)}

\* C17: every getSpecStatus(id) fetches once, a GET of <base>/spec-status/<id>
\* with the identifier as given, and a call that was answered 2xx returns
\* the body of its own response: k calls for an identifier make k requests
\* for it, and no call returns what an earlier call was answered with.
C17_StatusIsFetchedAfresh ==
    /\ \A i \in StatusCalls :
          /\ Len(Calls[i].fetched) = 1
          /\ Calls[i].fetched[1].method = "GET"
          /\ Calls[i].fetched[1].url = baseUrl \o <<"/spec-status/">> \o Calls[i].call.specId
          /\ Calls[i].fetched[1].body = NoBody
          /\ (Calls[i].outcome.kind = "response" /\ Calls[i].outcome.response.status = 200) =>
                Calls[i].result = Resolved(JSONParse(Calls[i].outcome.response.body).val)
    /\ \A specId \in SpecIds :
          Cardinality(StatusRequests(specId)) =
              Cardinality({i \in StatusCalls : Calls[i].call.specId = specId})

\* two calls for spec_123 have returned, the first answered "pending" and
\* the second "completed", and a third is in flight: three requests for
\* spec_123 were fetched and the second call returned "completed"
C17_Witness ==
    /\ Len(log) = 2
    /\ pc = "awaiting"
    /\ \A i \in 1..3 : Calls[i].call.op = "getSpecStatus" /\ Calls[i].call.specId = <<"spec_123">>
    /\ log[1].outcome.response.body = PendingHandle
    /\ log[2].outcome.response.body = CompletedStatus
    /\ MemberValue(log[1].result.value, <<"status">>) = JStr(<<"pending">>)
    /\ MemberValue(log[2].result.value, <<"status">>) = JStr(<<"completed">>)
    /\ Cardinality(StatusRequests(<<"spec_123">>)) = 3

\* the requests, of the calls so far, that carry no file
PlainRequests ==
    UNION {{Calls[i].fetched[j] : j \in {k \in 1..Len(Calls[i].fetched) :
                                            Calls[i].fetched[k].body.kind # "form"}} :
           i \in 1..Len(Calls)}

\* the configuration is the one some construction sets up, and the requests
\* without a file carry it
ConfigAsConstructed ==
    /\ \E cfg \in Configs :
          /\ apiKey = cfg.apiKey
          /\ baseUrl = NormalizeBaseUrl(cfg.baseUrl)
          /\ headers = DefaultHeaders(cfg.apiKey)
    /\ \A req \in PlainRequests :
          /\ DOMAIN req.headers = {"Authorization", "Content-Type"}
          /\ req.headers["Authorization"] = <<"Bearer ">> \o apiKey
          /\ req.headers["Content-Type"] = <<"application/json">>
          /\ SubSeq(req.url, 1, Len(baseUrl)) = baseUrl

\* C18: the API key, the base URL and the default headers are those set at
\* construction and no step of any operation changes them: whatever calls
\* came before, uploads included, a request without a file carries the same
\* Authorization value, the same base URL and Content-Type application/json.
C18_ConfigFixedAtConstruction ==
    /\ []ConfigAsConstructed
    /\ [][config' = config]_vars

\* after an upload has returned, getSpecStatus is in flight on the client
\* constructed with key_B and a custom base URL
C18_Witness ==
    /\ Len(log) >= 1
    /\ log[1].fetched[1].body.kind = "form"
    /\ DOMAIN log[1].fetched[1].headers = {"Authorization"}
    /\ pc = "awaiting"
    /\ call.op = "getSpecStatus"
    /\ fetched[1].headers = DefaultHeaders(<<"key_B">>)
    /\ fetched[1].url = <<"https://custom.api.com", "/spec-status/", "spec_123">>

----------------------------------------------------------------------------
(* Two calls in progress at once on one client.  The calls interleave at   *)
(* their awaits: an upload awaits normalizeFile before it reads            *)
(* this.headers and fetches, and every call awaits its fetch.              *)

SideInput == <<"Build a chat app">>
SideFile == Some(BlobFile(<<"application/pdf">>, None))

\* the second call runs up to its fetch
SideDispatch(req) ==
    /\ side' = [side EXCEPT !.pc = "awaiting", !.fetched = <<req>>]
    /\ headers' = HeadersAfterRequest(headers, req)
    /\ UNCHANGED <<apiKey, baseUrl, pc, call, fetched, outcome, result, log, poll, job, deploy>>

\* client.fastSpecAsync({input}) as the second call
SideFastSpecAsync ==
    /\ side.pc = "idle"
    /\ side' = [pc |-> "awaiting",
                call |-> GenerationCall("fastSpecAsync", SideInput, None, None, None),
                fetched |-> <<MakeRequestAsync(baseUrl, headers, <<"/fast-spec">>,
                                               SideInput, None, None, None)>>,
                outcome |-> NoOutcome,
                result |-> Pending]
    /\ headers' = HeadersAfterRequest(headers, side'.fetched[1])
    /\ UNCHANGED <<apiKey, baseUrl, pc, call, fetched, outcome, result, log, poll, job, deploy>>

\* client.deepSpec({input, file}) as the second call, up to the await of
\* normalizeFile: the form fields are set, nothing is fetched yet
SideDeepSpecWithFile ==
    /\ side.pc = "idle"
    /\ side' = [IdleSide EXCEPT !.pc = "normalizing",
                                !.call = GenerationCall("deepSpec", SideInput, None, None,
                                                        SideFile)]
    /\ UNCHANGED <<config, pc, call, fetched, outcome, result, log, poll, job, deploy>>

\* normalizeFile resolved: the upload reads this.headers and fetches
SideNormalized ==
    /\ side.pc = "normalizing"
    /\ SideDispatch(MakeRequest(baseUrl, headers, <<"/deep-spec">>, side.call.input,
                                side.call.currentContext, side.call.docURLs, side.call.file))

\* the continuation of the second call once its fetch has an outcome
SideContinue(out) ==
    LET next == AfterFetch(side.fetched, out) IN
    /\ side' = [side EXCEPT !.pc = next.pc, !.fetched = next.fetched,
                            !.outcome = out, !.result = next.result]
    /\ UNCHANGED <<config, pc, call, fetched, outcome, result, log, poll, job, deploy>>

ConcResponses ==
    SeqResponses \cup {[status |-> 401, body |-> <<>>, textReadable |-> FALSE]}

SideFetchResolves ==
    /\ side.pc = "awaiting"
    /\ \E resp \in ConcResponses : SideContinue(Answered(resp))

SideFetchRejects ==
    /\ side.pc = "awaiting"
    /\ SideContinue(Failed([class |-> "Error", isError |-> TRUE,
                            message |-> <<"Network error">>]))

SideReturn ==
    /\ side.pc = "settled"
    /\ side' = IdleSide
    /\ UNCHANGED <<config, pc, call, fetched, outcome, result, log, poll, job, deploy>>

NextConc ==
    \/ GetSpecStatus
    \/ FastSpecWithFile
    \/ SeqFetchResolves
    \/ SeqFetchRejects
    \/ Return
    \/ SideFastSpecAsync
    \/ SideDeepSpecWithFile
    \/ SideNormalized
    \/ SideFetchResolves
    \/ SideFetchRejects
    \/ SideReturn

SpecConc == Init /\ [][NextConc]_vars

\* the first call, as a record like the second
MainCall == [pc |-> pc, call |-> call, fetched |-> fetched,
             outcome |-> outcome, result |-> result]

\* the request a call makes when it runs alone on a client constructed with cfg
RequestAlone(c, cfg) ==
    LET base == NormalizeBaseUrl(cfg.baseUrl)
        hdrs == DefaultHeaders(cfg.apiKey)
        endpoint == IF c.op \in {"fastSpec", "fastSpecAsync"}
                    THEN <<"/fast-spec">> ELSE <<"/deep-spec">>
    IN CASE c.op = "getSpecStatus" -> GetSpecStatusRequest(base, hdrs, c.specId)
         [] c.op \in {"fastSpec", "deepSpec"} ->
               MakeRequest(base, hdrs, endpoint, c.input, c.currentContext, c.docURLs, c.file)
         [] c.op \in AsyncOps ->
               MakeRequestAsync(base, hdrs, endpoint, c.input, c.currentContext, c.docURLs,
                                c.file)

\* a call in progress fetched what it fetches alone, is settled by nothing
\* before its own fetch has an outcome, and then by that outcome
OnItsOwn(c, cfg) ==
    /\ c.pc \in {"idle", "normalizing"} => c.fetched = <<>> /\ c.result = Pending
    /\ c.pc \in {"awaiting", "settled"} => c.fetched = <<RequestAlone(c.call, cfg)>>
    /\ c.pc = "awaiting" => c.outcome = NoOutcome /\ c.result = Pending
    /\ c.pc = "settled" =>
          c.result = IF c.outcome.kind = "response" THEN HandleResponse(c.outcome.response)
                     ELSE CatchFetchError(c.outcome.thrown)

Independent == \E cfg \in Configs : OnItsOwn(MainCall, cfg) /\ OnItsOwn(side, cfg)

\* C19: when two calls are in progress at once on one client, however their
\* steps interleave, each fetches the request its own arguments and the
\* construction-time configuration determine, each is settled by the
\* classification of its own response, and no step of one call changes the
\* request, the outcome or the settlement of the other.
C19_ConcurrentCallsIndependent ==
    /\ []Independent
    /\ [][MainCall' = MainCall \/ side' = side]_vars

\* an upload is still waiting for its response while a second call, made
\* on the same client, has already been rejected with status 401
C19_Witness ==
    /\ pc = "awaiting"
    /\ call.op = "fastSpec"
    /\ fetched[1].body.kind = "form"
    /\ result = Pending
    /\ side.pc = "settled"
    /\ side.call.op = "fastSpecAsync"
    /\ side.fetched[1].headers = DefaultHeaders(apiKey)
    /\ side.outcome.response.status = 401
    /\ side.result = Rejected("AuthenticationError", <<"Invalid API key">>)

----------------------------------------------------------------------------
(* The error taxonomy.                                                     *)

Taxonomy == {"PredevAPIError", "AuthenticationError", "RateLimitError"}

\* the operation in progress was rejected with an error of the taxonomy
RejectedInTaxonomy ==
    pc = "settled" /\ result.kind = "rejected" /\ result.class \in Taxonomy

\* C20: an error an operation rejects with, when it is a PredevAPIError, an
\* AuthenticationError or a RateLimitError, is an instance of PredevAPIError
\* and of Error, is never an instance of both AuthenticationError and
\* RateLimitError, has its class's name as its name and the message it was
\* built with; within the taxonomy it is an instance of its own class and
\* of PredevAPIError and of nothing else.
C20_ErrorTaxonomy ==
    RejectedInTaxonomy =>
        /\ InstanceOf(result.class, "PredevAPIError")
        /\ InstanceOf(result.class, "Error")
        /\ ~(InstanceOf(result.class, "AuthenticationError")
             /\ InstanceOf(result.class, "RateLimitError"))
        /\ \A anc \in Taxonomy :
              InstanceOf(result.class, anc) <=> anc \in {result.class, "PredevAPIError"}
        /\ result.name = result.class
        /\ result.class = "AuthenticationError" => result.message = <<"Invalid API key">>
        /\ result.class = "RateLimitError" => result.message = <<"Rate limit exceeded">>
        /\ result.class = "PredevAPIError" =>
              \/ SubSeq(result.message, 1, 1) = <<"API request failed with status ">>
              \/ SubSeq(result.message, 1, 1) = <<"Request failed: ">>

\* listSpecs answered 429: the RateLimitError is caught by a handler for
\* PredevAPIError and is no AuthenticationError
C20_Witness ==
    /\ RejectedInTaxonomy
    /\ call.op = "listSpecs"
    /\ outcome.response.status = 429
    /\ result.class = "RateLimitError"
    /\ result.name = "RateLimitError"
    /\ result.message = <<"Rate limit exceeded">>
    /\ InstanceOf(result.class, "PredevAPIError")
    /\ ~InstanceOf(result.class, "AuthenticationError")

----------------------------------------------------------------------------
(* Routing.                                                                *)

InProgress == pc \in {"awaiting", "settled"}

----------------------------------------------------------------------------
(* The outputFormat option.                                                *)

\* C22: when fastSpec is called with an outputFormat option, the JSON body
\* of the request it sends has an outputFormat field with that value.
C22_OutputFormatIsSent ==
    (InProgress /\ call.op = "fastSpec" /\ IsSome(call.outputFormat)) =>
        /\ Sent.body.kind = "json"
        /\ Decoded.ok
        /\ HasMember(Decoded.val, <<"outputFormat">>)
        /\ MemberValue(Decoded.val, <<"outputFormat">>) = JStr(Get(call.outputFormat))

----------------------------------------------------------------------------
(* What reaches the caller.                                                *)

\* C23: whatever the transport does and whatever status and body come
\* back, an operation resolves with the parsed body or rejects with an
\* instance of PredevAPIError; no other kind of error reaches the caller,
\* not even for a 2xx response whose body is no JSON.
C23_OnlyPredevAPIErrorsEscape ==
    pc = "settled" =>
        \/ /\ result.kind = "resolved"
           /\ GotJson
           /\ result.value = JSONParse(outcome.response.body).val
        \/ /\ result.kind = "rejected"
           /\ InstanceOf(result.class, "PredevAPIError")

----------------------------------------------------------------------------
(* The text parts of an upload.                                            *)

\* the parts of this name in the multipart request sent
PartsNamed(name) ==
    {i \in 1..Len(Sent.body.parts) : Sent.body.parts[i].name = name}

\* the request sent has one part of this name, a text part with this value
OneTextPart(name, value) ==
    /\ Cardinality(PartsNamed(name)) = 1
    /\ \A i \in PartsNamed(name) :
          Sent.body.parts[i].kind = "text" /\ Sent.body.parts[i].value = value

\* C24: in a multipart request input and currentContext are text parts with
\* the values as given, and a list of documentation URLs is one text part
\* docURLs, never one part per URL, whose value is a JSON text that decodes
\* to the list supplied, in order.
C24_MultipartTextParts ==
    Uploading =>
        /\ Sent.body.kind = "form"
        /\ OneTextPart(<<"input">>, call.input)
        /\ IF IsSome(call.currentContext)
           THEN OneTextPart(<<"currentContext">>, Get(call.currentContext))
           ELSE PartsNamed(<<"currentContext">>) = {}
        /\ IF IsSome(call.docURLs)
           THEN /\ Cardinality(PartsNamed(<<"docURLs">>)) = 1
                /\ \A i \in PartsNamed(<<"docURLs">>) :
                      /\ Sent.body.parts[i].kind = "text"
                      /\ JSONParse(Sent.body.parts[i].value).ok
                      /\ JSONParse(Sent.body.parts[i].value).val = JStrArr(Get(call.docURLs))
           ELSE PartsNamed(<<"docURLs">>) = {}

\* an upload with a context that has quotes in it and two URLs, the second
\* with quotes and a comma in it
C24_Witness ==
    /\ Uploading
    /\ call.op = "deepSpec"
    /\ call.currentContext = Some(<<"existing ", QUOTE, "app", QUOTE>>)
    /\ IsSome(call.docURLs)
    /\ Get(call.docURLs) = <<<<"https://docs.a.dev">>,
                             <<"https://b.dev/?q=", QUOTE, "x", QUOTE, ",">>>>
    /\ \E i \in PartsNamed(<<"docURLs">>) :
          Sent.body.parts[i].value =
              <<"[", QUOTE, "https://docs.a.dev", QUOTE, ",",
                QUOTE, "https://b.dev/?q=", BSLASH, QUOTE, "x", BSLASH, QUOTE, ",", QUOTE, "]">>

----------------------------------------------------------------------------
(* The detail of a generic error.                                          *)

\* the text of a field of a parsed body when it is a non-empty string there
NonEmptyField(j, k) ==
    IF HasMember(j, k) /\ MemberValue(j, k).t = "str" THEN MemberValue(j, k).v ELSE <<>>

\* the detail the precedence error, message, whole body picks from a body
DetailByPrecedence(j) ==
    IF NonEmptyField(j, <<"error">>) # <<>> THEN NonEmptyField(j, <<"error">>)
    ELSE IF NonEmptyField(j, <<"message">>) # <<>> THEN NonEmptyField(j, <<"message">>)
    ELSE Stringify(j)

\* C25: a response that is not 2xx, 401 or 429 and whose body is JSON
\* rejects the call with the message "API request failed with status
\* <status>: <detail>", where the detail is the body's error field when it
\* is not empty, else its message field when that is not empty, else the
\* JSON text of the whole body.
C25_DetailPrecedence ==
    (GotOtherError /\ JSONParse(outcome.response.body).ok) =>
        /\ result.kind = "rejected"
        /\ result.message =
              <<"API request failed with status ">>
                  \o StatusText(outcome.response.status) \o <<": ">>
                  \o DetailByPrecedence(JSONParse(outcome.response.body).val)

----------------------------------------------------------------------------
(* The base URL.  Clients constructed with every shape of baseUrl: absent, *)
(* empty, a lone slash, and an address followed by no, one or two slashes. *)

BaseConfigs ==
    {[apiKey |-> k, baseUrl |-> b] :
        k \in {<<"key_A">>, <<"key_B">>},
        b \in {None, Some(<<>>), Some(<<"/">>),
               Some(<<"https://custom.api.com">>),
               Some(<<"https://custom.api.com", "/">>),
               Some(<<"https://custom.api.com", "/", "/">>)}}

\* new PredevAPI(config)
InitBase ==
    /\ \E cfg \in BaseConfigs :
          /\ apiKey = cfg.apiKey
          /\ baseUrl = NormalizeBaseUrl(cfg.baseUrl)
          /\ headers = DefaultHeaders(cfg.apiKey)
    /\ pc = "idle"
    /\ call = NoCall
    /\ fetched = <<>>
    /\ outcome = NoOutcome
    /\ result = Pending
    /\ log = <<>>
    /\ side = IdleSide
    /\ poll = NoPoll
    /\ job = "none"
    /\ deploy = NoDeploy

NextBase ==
    \/ GetSpecStatus
    \/ GetCreditsBalance
    \/ FastSpecWithFile
    \/ SeqFetchResolves
    \/ SeqFetchRejects
    \/ Return

SpecBase == InitBase /\ [][NextBase]_vars

\* the text without the slashes it ends with
RECURSIVE WithoutTrailingSlashes(_)
WithoutTrailingSlashes(text) ==
    IF text # <<>> /\ text[Len(text)] = "/"
    THEN WithoutTrailingSlashes(SubSeq(text, 1, Len(text) - 1))
    ELSE text

\* the base addresses the claim allows: each given address without its
\* trailing slashes, and the default origin for an absent or empty one
ClaimedBases ==
    {IF ~IsSome(cfg.baseUrl) \/ Get(cfg.baseUrl) = <<>> THEN <<"https://api.pre.dev">>
     ELSE WithoutTrailingSlashes(Get(cfg.baseUrl)) : cfg \in BaseConfigs}

\* the endpoint paths, each beginning with its one slash
EndpointPaths ==
    {<<"/fast-spec">>, <<"/credits-balance">>} \cup {<<"/spec-status/">> \o id : id \in SpecIds}

\* C26: whatever baseUrl the client was constructed with, every URL it
\* fetches is the base address without any trailing slash followed by the
\* endpoint path, so the two are joined by exactly one slash, and an absent
\* or empty baseUrl gives https://api.pre.dev.
C26_BaseAndPathJoinedByOneSlash ==
    InProgress =>
        \E base \in ClaimedBases, path \in EndpointPaths :
            /\ base # <<>>
            /\ base[Len(base)] # "/"
            /\ fetched[1].url = base \o path

----------------------------------------------------------------------------
(* What the API key influences.                                            *)

\* the request a call makes on a client with this base URL and API key
RequestOfCall(c, base, key) ==
    LET hdrs == DefaultHeaders(key)
        endpoint == IF c.op \in {"fastSpec", "fastSpecAsync"}
                    THEN <<"/fast-spec">> ELSE <<"/deep-spec">>
    IN CASE c.op \in {"fastSpec", "deepSpec"} ->
               MakeRequest(base, hdrs, endpoint, c.input, c.currentContext, c.docURLs, c.file)
         [] c.op \in AsyncOps ->
               MakeRequestAsync(base, hdrs, endpoint, c.input, c.currentContext, c.docURLs,
                                c.file)
         [] c.op = "getSpecStatus" -> GetSpecStatusRequest(base, hdrs, c.specId)
         [] c.op = "listSpecs" -> ListSpecsRequest(base, hdrs, c.params)
         [] c.op = "findSpecs" -> FindSpecsRequest(base, hdrs, c.params)
         [] c.op = "getCreditsBalance" -> GetCreditsBalanceRequest(base, hdrs)

\* a request without the value of its credential header
WithoutCredential(req) ==
    [req EXCEPT !.headers = [h \in DOMAIN req.headers |->
                                IF h = "Authorization" THEN <<>> ELSE req.headers[h]]]

OtherKeys == {<<"key_A">>, <<"key_B">>, <<"key_C">>}

\* the texts of a request outside its headers: its URL, its JSON text, the
\* names, values and file names of its form parts
TextsOf(req) ==
    {req.url, req.body.text}
    \cup UNION {{req.body.parts[i].name, req.body.parts[i].value, req.body.parts[i].filename} :
                i \in 1..Len(req.body.parts)}

----------------------------------------------------------------------------
(* The polling loops of the examples.  A script has submitted a job and    *)
(* polls its status with getSpecStatus: the loop of example6 and example7  *)
(* of basicExamples.ts ("example"), of the test-async script               *)
(* ("testAsync"), of the examples README ("readme") and of                 *)
(* getStatusExample.ts ("getStatusExample").  MaxAttempts stands for the   *)
(* maxAttempts of the loop, which is 10, 15, 30 or 5 in the source.        *)

MaxAttempts == 3

PollLoops == {"example", "testAsync", "readme", "getStatusExample"}

\* the body the service answers a status request with
StatusBody(status) ==
    <<"{", QUOTE, "specId", QUOTE, ":", QUOTE, "spec_123", QUOTE, ",",
           QUOTE, "status", QUOTE, ":", QUOTE, status, QUOTE, "}">>

\* the script has its handle and reaches its loop; the job is pending
InitPoll ==
    /\ \E cfg \in Configs :
          /\ apiKey = cfg.apiKey
          /\ baseUrl = NormalizeBaseUrl(cfg.baseUrl)
          /\ headers = DefaultHeaders(cfg.apiKey)
    /\ pc = "idle"
    /\ call = NoCall
    /\ fetched = <<>>
    /\ outcome = NoOutcome
    /\ result = Pending
    /\ log = <<>>
    /\ side = IdleSide
    /\ \E loop \in PollLoops : poll = [NoPoll EXCEPT !.loop = loop, !.pc = "waiting"]
    /\ job = "pending"
    /\ deploy = NoDeploy

\* the service finishes the job, one way or the other
JobAdvances ==
    /\ job = "pending"
    /\ deploy = NoDeploy
    /\ job' \in {"completed", "failed"}
    /\ UNCHANGED <<config, pc, call, fetched, outcome, result, log, side, poll, deploy>>

\* the script resumes, at its start or when its sleep is over, and makes
\* the next status check; the loops of example6/7 and test-async count the
\* attempt before the check, and test-async tests its bound here
PollResume ==
    /\ poll.pc = "waiting"
    /\ pc = "idle"
    /\ poll.loop = "testAsync" => poll.attempts < MaxAttempts
    /\ poll' = [poll EXCEPT !.pc = "checking",
                            !.attempts = IF poll.loop \in {"example", "testAsync"}
                                         THEN @ + 1 ELSE @,
                            !.checks = IF @ <= MaxAttempts THEN @ + 1 ELSE @]
    /\ pc' = "awaiting"
    /\ call' = [NoCall EXCEPT !.op = "getSpecStatus", !.specId = <<"spec_123">>]
    /\ fetched' = <<GetSpecStatusRequest(baseUrl, headers, <<"spec_123">>)>>
    /\ outcome' = NoOutcome
    /\ result' = Pending
    /\ headers' = HeadersAfterRequest(headers, fetched'[1])
    /\ UNCHANGED <<apiKey, baseUrl, log, side, job, deploy>>

\* test-async leaves its loop when the attempts are used up
PollTimesOut ==
    /\ poll.pc = "waiting"
    /\ pc = "idle"
    /\ poll.loop = "testAsync"
    /\ poll.attempts >= MaxAttempts
    /\ poll' = [poll EXCEPT !.pc = "done", !.verdicts = @ \cup {"timedOut"}]
    /\ UNCHANGED <<config, pc, call, fetched, outcome, result, log, side, job, deploy>>

\* the service answers a status check with the status the job has
PollFetchResolves ==
    /\ pc = "awaiting"
    /\ Continue(Answered([status |-> 200, body |-> StatusBody(job), textReadable |-> FALSE]))

\* the service answers a status check with an error
PollFetchFails ==
    /\ pc = "awaiting"
    /\ Continue(Answered([status |-> 500,
                          body |-> <<"{", QUOTE, "error", QUOTE, ":", QUOTE, "X", QUOTE, "}">>,
                          textReadable |-> FALSE]))

\* the code after the loop of example6/7: the verdict on the attempts
AfterExampleLoop(p) ==
    [p EXCEPT !.pc = "done",
              !.verdicts = IF p.attempts >= MaxAttempts
                           THEN @ \cup {"stillProcessing"} ELSE @]

\* the code after the loop of test-async
AfterTestAsyncLoop(p) ==
    [p EXCEPT !.pc = "done",
              !.verdicts = IF p.attempts >= MaxAttempts
                           THEN @ \cup {"timedOut"} ELSE @ \cup {"success"}]

\* what a loop does with the settlement of its status check, up to its
\* next await or its end
AfterCheck(p, res) ==
    LET ok == res.kind = "resolved"
        status == IF ok /\ HasMember(res.value, <<"status">>)
                       /\ MemberValue(res.value, <<"status">>).t = "str"
                       /\ Len(MemberValue(res.value, <<"status">>).v) = 1
                  THEN MemberValue(res.value, <<"status">>).v[1] ELSE ""
        q == [p EXCEPT !.seen = IF status \in {"completed", "failed"} THEN status ELSE @]
        reported == [q EXCEPT !.verdicts = @ \cup {status}]
        failure == [q EXCEPT !.pc = "done", !.verdicts = @ \cup {"error"}]
        sleep == [q EXCEPT !.pc = "waiting"]
    IN CASE p.loop = "example" ->
              IF ~ok THEN failure
              ELSE IF status \in {"completed", "failed"} THEN AfterExampleLoop(reported)
              ELSE IF q.attempts < MaxAttempts THEN sleep
              ELSE AfterExampleLoop(q)
         [] p.loop = "testAsync" ->
              IF ~ok THEN sleep
              ELSE IF status = "completed" THEN AfterTestAsyncLoop(reported)
              ELSE IF status = "failed" THEN [reported EXCEPT !.pc = "done"]
              ELSE sleep
         [] p.loop = "readme" ->
              IF ~ok THEN failure
              ELSE IF status = "completed" THEN [reported EXCEPT !.pc = "done"]
              ELSE sleep
         [] p.loop = "getStatusExample" ->
              IF ~ok THEN failure
              ELSE IF status = "completed" THEN [reported EXCEPT !.pc = "done"]
              ELSE IF q.attempts + 1 < MaxAttempts
                   THEN [q EXCEPT !.pc = "waiting", !.attempts = @ + 1]
              ELSE [q EXCEPT !.pc = "done", !.attempts = @ + 1]

\* the status check settles and the loop goes on from it
PollRead ==
    /\ poll.pc = "checking"
    /\ pc = "settled"
    /\ poll' = AfterCheck(poll, result)
    /\ pc' = "idle"
    /\ call' = NoCall
    /\ fetched' = <<>>
    /\ outcome' = NoOutcome
    /\ result' = Pending
    /\ UNCHANGED <<config, log, side, job, deploy>>

NextPoll ==
    \/ JobAdvances
    \/ PollResume
    \/ PollTimesOut
    \/ PollFetchResolves
    \/ PollFetchFails
    \/ PollRead

SpecPoll == InitPoll /\ [][NextPoll]_vars

\* timers fire, the service answers and the script runs on
SpecPollFair ==
    /\ SpecPoll
    /\ WF_vars(PollResume)
    /\ WF_vars(PollTimesOut)
    /\ WF_vars(PollFetchResolves)
    /\ WF_vars(PollRead)

\* C28: the loops of example6, example7 and test-async make at most
\* maxAttempts status checks, stop at the first check that observes
\* completed or failed, and report "still processing after maximum
\* attempts" or "timed out" only when no check observed a terminal status,
\* also when the terminal status is observed on the last allowed attempt.
C28_BoundedPollingVerdict ==
    poll.loop \in {"example", "testAsync"} =>
        /\ poll.checks <= MaxAttempts
        /\ poll.seen # "" => poll.pc = "done"
        /\ poll.verdicts \cap {"stillProcessing", "timedOut"} # {} => poll.seen = ""

\* C29: in the loops of the examples README and of getStatusExample, once
\* the job is completed or failed the loop eventually stops polling.
C29_PollingStopsOnTerminalJob ==
    (poll.loop \in {"readme", "getStatusExample"} /\ job \in {"completed", "failed"})
        ~> (poll.pc = "done")

\* ---------------------------------------------------------------------------
\* scripts/deploy.sh: the deployment block, run under set -e
\* ---------------------------------------------------------------------------

\* exit statuses a publish script can end with
ExitCodes == {0, 1, 2}

\* the ways deploy.sh is invoked: --sequential or not, --node-only, --python-only or neither
DeployModes == {"parallel", "sequential"}

DeployOnly == {"both", "node", "python"}

InitDeploy ==
    /\ apiKey = <<"key_A">>
    /\ baseUrl = NormalizeBaseUrl(None)
    /\ headers = DefaultHeaders(<<"key_A">>)
    /\ pc = "idle"
    /\ call = NoCall
    /\ fetched = <<>>
    /\ outcome = NoOutcome
    /\ result = Pending
    /\ log = <<>>
    /\ side = IdleSide
    /\ poll = NoPoll
    /\ job = "none"
    /\ \E m \in DeployModes, o \in DeployOnly, d \in BOOLEAN :
         deploy = [NoDeploy EXCEPT !.mode = m, !.only = o, !.USE_DOPPLER = d, !.pc = "start"]

\* the command a deployment function runs for its publish script
PublishCommand(d, script) ==
    IF d.USE_DOPPLER THEN <<"doppler", "run", "--", script>> ELSE <<script>>

\* set -e: a simple command that returns non-zero ends the shell with that status
\* before the next command runs; otherwise the shell goes on at `next`
ErrExit(d, code, next) ==
    IF code # 0
    THEN [d EXCEPT !.pc = "exited", !.exited = TRUE, !.status = code]
    ELSE next

\* the script's last lines: the closing success message, then exit status 0
Finish(d) ==
    [d EXCEPT !.pc = "exited", !.exited = TRUE, !.status = 0,
              !.printed = @ \cup {"Unified deployment completed successfully!"}]

\* the check after both waits
CheckBoth(d) ==
    IF d.NODE_EXIT_CODE = 0 /\ d.PYTHON_EXIT_CODE = 0
    THEN Finish([d EXCEPT !.printed = @ \cup {"Both packages deployed successfully!"}])
    ELSE [d EXCEPT !.pc = "exited", !.exited = TRUE, !.status = 1,
                   !.printed = @ \cup {"Deployment failed!"}
                       \cup (IF d.NODE_EXIT_CODE # 0 THEN {"Node.js deployment failed"} ELSE {})
                       \cup (IF d.PYTHON_EXIT_CODE # 0 THEN {"Python deployment failed"} ELSE {})]

\* deploy_node & ; NODE_PID=$!
StartNode ==
    /\ deploy.pc = "start" /\ deploy.mode = "parallel" /\ deploy.only = "both"
    /\ deploy' = [deploy EXCEPT !.pc = "startPython", !.node = "entered",
                     !.printed = @ \cup {"Deploying both packages in parallel..."}]
    /\ UNCHANGED <<config, pc, call, fetched, outcome, result, log, side, poll, job>>

\* deploy_python & ; PYTHON_PID=$!
StartPython ==
    /\ deploy.pc = "startPython"
    /\ deploy' = [deploy EXCEPT !.pc = "waitNode", !.python = "entered"]
    /\ UNCHANGED <<config, pc, call, fetched, outcome, result, log, side, poll, job>>

\* deploy_node prints its opening line and runs its publish script
NodeBegins ==
    /\ deploy.node = "entered"
    /\ deploy' = [deploy EXCEPT !.node = "running",
                     !.printed = @ \cup {"Starting Node.js deployment..."},
                     !.ran = @ \cup {PublishCommand(deploy, "./scripts/publish-node.sh")}]
    /\ UNCHANGED <<config, pc, call, fetched, outcome, result, log, side, poll, job>>

\* deploy_python prints its opening line and runs its publish script
PythonBegins ==
    /\ deploy.python = "entered"
    /\ deploy' = [deploy EXCEPT !.python = "running",
                     !.printed = @ \cup {"Starting Python deployment..."},
                     !.ran = @ \cup {PublishCommand(deploy, "./scripts/publish-python.sh")}]
    /\ UNCHANGED <<config, pc, call, fetched, outcome, result, log, side, poll, job>>

\* deploy_node's publish script ends; under set -e the function prints its
\* closing line only after a zero status
NodeExits ==
    /\ deploy.node = "running"
    /\ \E code \in ExitCodes :
         deploy' = [deploy EXCEPT !.node = "exited", !.nodeCode = code,
                       !.printed = IF code = 0
                                   THEN @ \cup {"Node.js deployment completed!"} ELSE @]
    /\ UNCHANGED <<config, pc, call, fetched, outcome, result, log, side, poll, job>>

\* deploy_python's publish script ends
PythonExits ==
    /\ deploy.python = "running"
    /\ \E code \in ExitCodes :
         deploy' = [deploy EXCEPT !.python = "exited", !.pythonCode = code,
                       !.printed = IF code = 0
                                   THEN @ \cup {"Python deployment completed!"} ELSE @]
    /\ UNCHANGED <<config, pc, call, fetched, outcome, result, log, side, poll, job>>

\* wait $NODE_PID ; NODE_EXIT_CODE=$?
WaitNode ==
    /\ deploy.pc = "waitNode" /\ deploy.node = "exited"
    /\ deploy' = ErrExit(deploy, deploy.nodeCode,
                     [deploy EXCEPT !.pc = "waitPython", !.NODE_EXIT_CODE = deploy.nodeCode])
    /\ UNCHANGED <<config, pc, call, fetched, outcome, result, log, side, poll, job>>

\* wait $PYTHON_PID ; PYTHON_EXIT_CODE=$? ; the check of both codes
WaitPython ==
    /\ deploy.pc = "waitPython" /\ deploy.python = "exited"
    /\ deploy' = ErrExit(deploy, deploy.pythonCode,
                     CheckBoth([deploy EXCEPT !.PYTHON_EXIT_CODE = deploy.pythonCode]))
    /\ UNCHANGED <<config, pc, call, fetched, outcome, result, log, side, poll, job>>

\* deploy_node called in the foreground: --sequential without --python-only, or --node-only
ForegroundNode ==
    /\ deploy.pc = "start"
    /\ \/ deploy.mode = "sequential" /\ deploy.only # "python"
       \/ deploy.mode = "parallel" /\ deploy.only = "node"
    /\ deploy' = [deploy EXCEPT !.pc = "inNode", !.node = "entered"]
    /\ UNCHANGED <<config, pc, call, fetched, outcome, result, log, side, poll, job>>

\* the foreground deploy_node returns; --sequential goes on to deploy_python
\* unless --node-only
ForegroundNodeReturns ==
    /\ deploy.pc = "inNode" /\ deploy.node = "exited"
    /\ deploy' = ErrExit(deploy, deploy.nodeCode,
                     IF deploy.mode = "sequential" /\ deploy.only # "node"
                     THEN [deploy EXCEPT !.pc = "inPython", !.python = "entered"]
                     ELSE Finish(deploy))
    /\ UNCHANGED <<config, pc, call, fetched, outcome, result, log, side, poll, job>>

\* deploy_python called in the foreground first: --python-only
ForegroundPython ==
    /\ deploy.pc = "start" /\ deploy.only = "python"
    /\ deploy' = [deploy EXCEPT !.pc = "inPython", !.python = "entered"]
    /\ UNCHANGED <<config, pc, call, fetched, outcome, result, log, side, poll, job>>

\* the foreground deploy_python returns
ForegroundPythonReturns ==
    /\ deploy.pc = "inPython" /\ deploy.python = "exited"
    /\ deploy' = ErrExit(deploy, deploy.pythonCode, Finish(deploy))
    /\ UNCHANGED <<config, pc, call, fetched, outcome, result, log, side, poll, job>>

NextDeploy ==
    \/ StartNode
    \/ StartPython
    \/ NodeBegins
    \/ PythonBegins
    \/ NodeExits
    \/ PythonExits
    \/ WaitNode
    \/ WaitPython
    \/ ForegroundNode
    \/ ForegroundNodeReturns
    \/ ForegroundPython
    \/ ForegroundPythonReturns

SpecDeploy == InitDeploy /\ [][NextDeploy]_vars

\* deploy.sh was started in its default mode with both packages selected
ParallelBoth == deploy.mode = "parallel" /\ deploy.only = "both"

\* C30: in the default parallel mode with both packages, deploy.sh never exits
\* while a deployment it started is still running; once it has exited, a
\* non-zero deployment status means it printed "Deployment failed!" naming each
\* failed deployment and exited 1; and "Both packages deployed successfully!"
\* is printed only when both deployments exited 0.
C30_ParallelDeployWaitsAndReports ==
    ParallelBoth =>
      /\ deploy.exited =>
           /\ deploy.node = "exited" /\ deploy.python = "exited"
           /\ (deploy.nodeCode # 0 \/ deploy.pythonCode # 0) =>
                /\ deploy.status = 1
                /\ "Deployment failed!" \in deploy.printed
                /\ deploy.nodeCode # 0 => "Node.js deployment failed" \in deploy.printed
                /\ deploy.pythonCode # 0 => "Python deployment failed" \in deploy.printed
      /\ "Both packages deployed successfully!" \in deploy.printed =>
           /\ deploy.node = "exited" /\ deploy.nodeCode = 0
           /\ deploy.python = "exited" /\ deploy.pythonCode = 0

====
